---- MODULE Spec2Model ----
(***************************************************************************)
(* The JIT block cache (JitBaseBlockCache) and the dispatcher's block      *)
(* lookup, as a state machine.                                             *)
(*                                                                         *)
(* Guest addresses are taken from a window around the 16 KiB index-page    *)
(* boundary 0x4000; every sum the code forms on them stays far below 2^31, *)
(* so u32 arithmetic and integer arithmetic agree on the window.           *)
(*                                                                         *)
(* Generated code is modelled by what sits at the two kinds of patch site: *)
(* a block's field checkedEntry holds what its checked entry point does    *)
(* ("check": the downcount check followed by the block body, "redirect":   *)
(* MOV pc, address; JMP dispatcher), and an exit's field exitPtrs holds    *)
(* the number of the block whose checked entry the exit jumps to (NoBlock: *)
(* the exit still leaves through the dispatcher).                          *)
(*                                                                         *)
(* The second part is the address translation of the MMU (BAT tables, TLB, *)
(* hashed page table) and the routing of reads and writes to the memory    *)
(* regions.  There a 32-bit address, or a 32-bit word that holds one, is   *)
(* the record [page, off] of its 4 KiB page number (address >> 12) and its *)
(* offset in the page (address & 0xfff), so that no sum leaves 32 bits     *)
(* unnoticed; page-table entry words are the records of their bit fields.  *)
(***************************************************************************)
EXTENDS Integers, Sequences, FiniteSets, Bags, TLC

VARIABLES
    blocks,             \* std::array<JitBlock, MAX_NUM_BLOCKS>
    num_blocks,         \* int num_blocks
    blockCodePointers,  \* std::array<const u8*, MAX_NUM_BLOCKS>
    links_to,           \* std::multimap<u32, int>, a bag of <<address, block>>
    block_map,          \* std::map<pair<u32,u32>, u32>: <<end, start>> -> number
    valid_block,        \* ValidBlockBitSet: the set of granule bits that are set
    m_phys_addrs,       \* u32** : allocated pages, each the entries written so far
    fifoWriteAddresses, \* jit->js.fifoWriteAddresses
    alerts,             \* the PanicAlerts raised by the last operation
    leftUnlinked,       \* <<block, exit>>: exits a linking FinalizeBlock left unlinked
    entered             \* where the last dispatch transferred control

VARIABLES
    ppcState,           \* PowerPC::ppcState: BAT registers, sr, tlb, msr, exception state
    dbat_table,         \* u32 dbat_table[1 << 15], on the granules of BatIndices
    ibat_table,         \* u32 ibat_table[1 << 15], on the granules of BatIndices
    physical_base,      \* Memory::physical_base: the PTE words and the bytes of the regions
    bFakeVMEM,          \* Memory::bFakeVMEM
    bMMU,               \* m_LocalCoreStartupParameter.bMMU
    bWii,               \* m_LocalCoreStartupParameter.bWii (m_pEXRAM is mapped)
    extended_bats,      \* bWii && HID4.SBE
    table_layout,       \* where the build placed dbat_table and ibat_table
    stuck,              \* the CPU thread is in a loop that does not end
    pointerWrap         \* PointerWrap &p: what the last Memory::DoState emitted

mmuVars == <<ppcState, dbat_table, ibat_table, physical_base, bFakeVMEM, bMMU, bWii,
             extended_bats, table_layout, stuck, pointerWrap>>

\* CommandProcessor: the FIFO the CPU context fills and the GPU context
\* consumes, and the interrupt handshake between the two.
VARIABLES
    cpuFifo,              \* SCPFifoStruct cpuFifo
    gpuFifoCopy,          \* SCPFifoStruct _gpuFifo (gpuFifo points to it when deterministic)
    m_CPCtrlReg,          \* UCPCtrlReg m_CPCtrlReg
    interruptSet,         \* volatile bool interruptSet
    interruptWaiting,     \* volatile bool interruptWaiting
    gpuRunning,           \* volatile bool gpuRunning
    deterministicGPUSync, \* bool deterministicGPUSync
    events,               \* CoreTiming: the scheduled et_UpdateInterrupts events (userdata)
    cpuThread,            \* where the CPU context is in its handler
    gpuThread             \* where the GPU context is in its loop

cpVars == <<cpuFifo, gpuFifoCopy, m_CPCtrlReg, interruptSet, interruptWaiting,
            gpuRunning, deterministicGPUSync, events, cpuThread,
            gpuThread>>

vars == <<blocks, num_blocks, blockCodePointers, links_to, block_map,
          valid_block, m_phys_addrs, fifoWriteAddresses, alerts,
          leftUnlinked, entered, mmuVars, cpVars>>

(***************************************************************************)
(* Bounds and inputs.                                                      *)
(***************************************************************************)
\* Capacity of the block array (the program's value is 65536 * 2).
MAX_NUM_BLOCKS == 5

\* "Not found" of the address index, and "no block" of a patch site.
NoBlock == -1

\* nullptr of blockCodePointers; the code pointer of block n is n itself.
NullPtr == -1

BlockIds == 0 .. (MAX_NUM_BLOCKS - 1)

\* Guest start addresses of compiled blocks: 0x3FE0, 0x4000, 0x4020.
StartAddrs == {16352, 16384, 16416}

\* What the code generator produces for a block starting at em_address:
\* the number of guest instructions and the exits' target addresses.
CodeGen(em_address) ==
    CASE em_address = 16352 -> {[originalSize |-> 24, exits |-> <<>>]}
      [] em_address = 16384 -> {[originalSize |-> 2, exits |-> <<16416, 16352>>]}
      [] OTHER              -> {[originalSize |-> 1, exits |-> <<>>]}

\* Arguments of InvalidateICache: 0x4000, 0x4010 (unaligned), 0x4020.
InvAddrs == {16384, 16400, 16416}
InvLengths == {4, 32, 64}

\* Instruction addresses recorded as FIFO-write hints: 0x4000.
FifoAddrs == {16384}

\* Addresses the dispatcher and the lookups are tried on.
LookupAddrs == StartAddrs \cup {16448}

(***************************************************************************)
(* The cache as one value, so that the operations are operators on it.     *)
(***************************************************************************)
Cache ==
    [blocks |-> blocks, num_blocks |-> num_blocks,
     blockCodePointers |-> blockCodePointers, links_to |-> links_to,
     block_map |-> block_map, valid_block |-> valid_block,
     m_phys_addrs |-> m_phys_addrs, fifoWriteAddresses |-> fifoWriteAddresses,
     alerts |-> alerts]

FreshBlock ==
    [checkedEntry |-> "check", originalAddress |-> 0, originalSize |-> 0,
     invalid |-> FALSE, linkData |-> <<>>]

\* An IsFull that reports a full cache one block late.
IsFullOneLate(c) == c.num_blocks >= MAX_NUM_BLOCKS

\* bool JitBaseBlockCache::IsFull() const
IsFull(c) == c.num_blocks >= MAX_NUM_BLOCKS - 1

\* ValidBlockBitSet::Test / Set / Clear on the set of set bits
Test(c, bit) == bit \in c.valid_block

PageOf(addr) == addr \div 16384
SlotOf(addr) == (addr \div 4) % 4096

\* int JitBaseBlockCache::GetBlockNumberFromStartAddress(u32 addr)
GetBlockNumberFromStartAddress(c, addr) ==
    IF PageOf(addr) \notin DOMAIN c.m_phys_addrs
    THEN NoBlock
    ELSE LET page == c.m_phys_addrs[PageOf(addr)]
         IN  IF SlotOf(addr) \in DOMAIN page THEN page[SlotOf(addr)] ELSE NoBlock

\* m_phys_addrs[addr >> 14][(addr >> 2) & 0xfff] = value, on an allocated page
WriteIndex(phys, addr, value) ==
    LET page == phys[PageOf(addr)]
    IN  [phys EXCEPT ![PageOf(addr)] =
            [s \in DOMAIN page \cup {SlotOf(addr)} |->
                IF s = SlotOf(addr) THEN value ELSE page[s]]]

\* The guest range of a block: first byte and last byte.
BlockStart(b) == b.originalAddress
BlockEnd(b) == b.originalAddress + 4 * b.originalSize - 1

(***************************************************************************)
(* Linking.                                                                *)
(***************************************************************************)
\* The blocks registered in links_to under key addr (equal_range).
LinkSources(c, addr) == {p[2] : p \in {q \in BagToSet(c.links_to) : q[1] = addr}}

\* links_to.erase(addr)
EraseLinks(links, addr) ==
    [p \in {q \in DOMAIN links : q[1] # addr} |-> links[p]]

\* The body of LinkBlockExits' loop for one exit e: an unlinked exit whose
\* target has an index entry is patched to that block's checked entry.
LinkExit(c, e) ==
    IF ~e.linkStatus /\ GetBlockNumberFromStartAddress(c, e.exitAddress) # NoBlock
    THEN [e EXCEPT !.exitPtrs = GetBlockNumberFromStartAddress(c, e.exitAddress),
                   !.linkStatus = TRUE]
    ELSE e

\* void JitBaseBlockCache::LinkBlockExits(int i), as the new value of blocks[i]
LinkedBlock(c, i) ==
    LET b == c.blocks[i]
    IN  IF b.invalid
        THEN b
        ELSE [b EXCEPT !.linkData =
                 [k \in DOMAIN b.linkData |-> LinkExit(c, b.linkData[k])]]

LinkBlockExits(c, i) == [c EXCEPT !.blocks[i] = LinkedBlock(c, i)]

\* void JitBaseBlockCache::LinkBlock(int i).  Each LinkBlockExits(n) writes
\* blocks[n].linkData alone and reads the index and blocks[n], which no
\* call writes, so the calls are applied to their blocks independently.
LinkBlock(c, i) ==
    LET c1 == LinkBlockExits(c, i)
        srcs == LinkSources(c1, c1.blocks[i].originalAddress)
    IN  [c1 EXCEPT !.blocks =
            [n \in DOMAIN c1.blocks |->
                IF n \in srcs THEN LinkedBlock(c1, n) ELSE c1.blocks[n]]]

\* void JitBaseBlockCache::UnlinkBlock(int i)
UnlinkBlock(c, i) ==
    LET addr == c.blocks[i].originalAddress
        srcs == LinkSources(c, addr)
    IN  [c EXCEPT
           !.blocks =
              [n \in DOMAIN c.blocks |->
                  IF n \in srcs
                  THEN [c.blocks[n] EXCEPT !.linkData =
                          [k \in DOMAIN c.blocks[n].linkData |->
                              IF c.blocks[n].linkData[k].exitAddress = addr
                              THEN [c.blocks[n].linkData[k] EXCEPT !.linkStatus = FALSE]
                              ELSE c.blocks[n].linkData[k]]]
                  ELSE c.blocks[n]],
           !.links_to = EraseLinks(c.links_to, addr)]

(***************************************************************************)
(* Destruction and invalidation.                                           *)
(***************************************************************************)
\* The index entry DestroyBlock leaves at the block's start address.
DestroyedIndexEntry(block_num) == block_num

\* A DestroyBlock without the test of the invalid flag.
DestroyBlockAgain(c, block_num, invalidate) ==
    IF block_num < 0 \/ block_num >= c.num_blocks
    THEN [c EXCEPT !.alerts = @ \cup {"DestroyBlock: Invalid block number"}]
    ELSE LET c1 == [c EXCEPT !.blocks[block_num].invalid = TRUE]
             c2 == UnlinkBlock(c1, block_num)
             c3 == [c2 EXCEPT !.m_phys_addrs =
                       WriteIndex(@, c2.blocks[block_num].originalAddress,
                                  DestroyedIndexEntry(block_num))]
         IN  [c3 EXCEPT !.blocks[block_num].checkedEntry = "redirect"]

\* void JitBaseBlockCache::DestroyBlock(int block_num, bool invalidate)
DestroyBlock(c, block_num, invalidate) ==
    IF block_num < 0 \/ block_num >= c.num_blocks
    THEN [c EXCEPT !.alerts = @ \cup {"DestroyBlock: Invalid block number"}]
    ELSE IF c.blocks[block_num].invalid
    THEN IF invalidate
         THEN [c EXCEPT !.alerts = @ \cup {"Invalidating invalid block"}]
         ELSE c
    ELSE LET c1 == [c EXCEPT !.blocks[block_num].invalid = TRUE]
             c2 == UnlinkBlock(c1, block_num)
             c3 == [c2 EXCEPT !.m_phys_addrs =
                       WriteIndex(@, c2.blocks[block_num].originalAddress,
                                  DestroyedIndexEntry(block_num))]
         IN  \* WriteDestroyBlock(b.checkedEntry, b.originalAddress)
             [c3 EXCEPT !.blocks[block_num].checkedEntry = "redirect"]

\* Order of block_map: pairs compare by end address, then by start address.
KeyLess(k1, k2) == k1[1] < k2[1] \/ (k1[1] = k2[1] /\ k1[2] < k2[2])

\* The keys InvalidateICache's loop visits: from lower_bound(<<address, 0>>)
\* on, for as long as the key's start address is below address + length.
ScanKeys(c, address, length) ==
    LET from == {k \in DOMAIN c.block_map : ~KeyLess(k, <<address, 0>>)}
    IN  {k \in from :
            \A j \in from : (j = k \/ KeyLess(j, k)) => j[2] < address + length}

\* An InvalidateICache that leaves the visited keys in block_map.
EraseKeysForgotten(map, keys) == map

\* An InvalidateICache whose erase empties block_map.
EraseKeysWholeMap(map, keys) == IF keys = {} THEN map ELSE <<>>

\* if (it1 != it2) block_map.erase(it1, it2)
EraseKeys(map, keys) == [k \in DOMAIN map \ keys |-> map[k]]

RECURSIVE DestroyScan(_, _)
\* The loop of InvalidateICache over the visited keys, in key order.
DestroyScan(c, keys) ==
    IF keys = {}
    THEN c
    ELSE LET k == CHOOSE x \in keys : \A y \in keys : y = x \/ KeyLess(x, y)
         IN  DestroyScan(DestroyBlock(c, c.block_map[k], TRUE), keys \ {k})

\* The addresses i = address, address + 4, ... below address + length.
FifoRange(address, length) ==
    {address + 4 * j : j \in 0 .. ((length + 3) \div 4 - 1)}

\* void JitBaseBlockCache::InvalidateICache(u32 address, const u32 length, bool forced)
InvalidateICache(c, address, length, forced) ==
    LET destroy_block == ~(length = 32 /\ ~Test(c, address \div 32))
        c0 == IF length = 32 /\ Test(c, address \div 32)
              THEN [c EXCEPT !.valid_block = @ \ {address \div 32}]
              ELSE c
    IN  IF ~destroy_block
        THEN c0
        ELSE LET keys == ScanKeys(c0, address, length)
                 c1 == DestroyScan(c0, keys)
                 c2 == [c1 EXCEPT !.block_map = EraseKeys(@, keys)]
             IN  IF ~forced
                 THEN [c2 EXCEPT !.fifoWriteAddresses =
                          @ \ FifoRange(address, length)]
                 ELSE c2

\* A Clear whose loop destroys no block.
DestroyAllSkipped(c, i) == c

RECURSIVE DestroyAll(_, _)
\* for (int i = 0; i < num_blocks; i++) DestroyBlock(i, false);
DestroyAll(c, i) ==
    IF i >= c.num_blocks THEN c ELSE DestroyAll(DestroyBlock(c, i, FALSE), i + 1)

\* void JitBaseBlockCache::Clear().  The slots of the block array are not
\* read again before AllocateBlock and the code generator rewrite them (and
\* the code their pointers name is freed with the cache), so of each slot
\* the model keeps the invalid flag that Clear's loop left and nothing else.
Clear(c) ==
    LET c1 == DestroyAll([c EXCEPT !.fifoWriteAddresses = {}], 0)
    IN  [c1 EXCEPT !.blocks =
                      [n \in BlockIds |->
                          [FreshBlock EXCEPT !.invalid = c1.blocks[n].invalid]],
                   !.links_to = EmptyBag,
                   !.block_map = <<>>,
                   !.valid_block = {},
                   !.num_blocks = 0,
                   !.blockCodePointers = [n \in BlockIds |-> NullPtr],
                   !.m_phys_addrs = <<>>]

(***************************************************************************)
(* Allocation and finalization.                                            *)
(***************************************************************************)
\* int JitBaseBlockCache::AllocateBlock(u32 em_address); returns num_blocks.
AllocateBlock(c, em_address) ==
    [c EXCEPT !.blocks[c.num_blocks] =
                [@ EXCEPT !.invalid = FALSE,
                          !.originalAddress = em_address,
                          !.linkData = <<>>],
              !.num_blocks = @ + 1]

\* What the code generator writes into the block between AllocateBlock and
\* FinalizeBlock: the size, the entry point's code and the exits (unlinked).
Populate(c, block_num, gen) ==
    [c EXCEPT !.blocks[block_num] =
        [@ EXCEPT !.originalSize = gen.originalSize,
                  !.checkedEntry = "check",
                  !.linkData =
                      [k \in DOMAIN gen.exits |->
                          [exitPtrs |-> NoBlock, exitAddress |-> gen.exits[k],
                           linkStatus |-> FALSE]]]]

\* The granules FinalizeBlock marks valid.
BlockGranules(b) ==
    (b.originalAddress \div 32) ..
        ((b.originalAddress + (b.originalSize - 1) * 4) \div 32)

\* A FinalizeBlock that allocates a missing index page and returns without
\* writing the entry into it.
FinalizeIndexForgetsNewPage(phys, addr, block_num) ==
    IF PageOf(addr) \in DOMAIN phys
    THEN WriteIndex(phys, addr, block_num)
    ELSE [p \in DOMAIN phys \cup {PageOf(addr)} |->
             IF p = PageOf(addr) THEN <<>> ELSE phys[p]]

\* The index after FinalizeBlock's lazy page allocation and entry write.
FinalizeIndex(phys, addr, block_num) ==
    LET withPage == IF PageOf(addr) \in DOMAIN phys
                    THEN phys
                    ELSE [p \in DOMAIN phys \cup {PageOf(addr)} |->
                             IF p = PageOf(addr) THEN <<>> ELSE phys[p]]
    IN  WriteIndex(withPage, addr, block_num)

\* for (const auto& e : b.linkData) links_to.insert({e.exitAddress, block_num})
RegisterExits(links, b, block_num) ==
    links (+) [p \in {<<b.linkData[k].exitAddress, block_num>> : k \in DOMAIN b.linkData} |->
                 Cardinality({k \in DOMAIN b.linkData : b.linkData[k].exitAddress = p[1]})]

\* void JitBaseBlockCache::FinalizeBlock(int block_num, bool block_link, const u8 *code_ptr)
FinalizeBlock(c, block_num, block_link, code_ptr) ==
    LET b == c.blocks[block_num]
        c1 == [c EXCEPT
                 !.blockCodePointers[block_num] = code_ptr,
                 !.valid_block = @ \cup BlockGranules(b),
                 !.block_map =
                     [k \in DOMAIN @ \cup {<<BlockEnd(b), BlockStart(b)>>} |->
                         IF k = <<BlockEnd(b), BlockStart(b)>> THEN block_num ELSE @[k]],
                 !.m_phys_addrs = FinalizeIndex(@, b.originalAddress, block_num)]
    IN  IF block_link
        THEN LET c2 == [c1 EXCEPT !.links_to = RegisterExits(@, b, block_num)]
             IN  LinkBlockExits(LinkBlock(c2, block_num), block_num)
        ELSE c1

(***************************************************************************)
(* The dispatcher.                                                         *)
(***************************************************************************)
NotEntered == [kind |-> "none", block |-> NoBlock]
JitPath == [kind |-> "jit", block |-> NoBlock]
InBlock(n) == [kind |-> "block", block |-> n]

\* A dispatcher whose sign test also sends index 0 to the compile path.
DispatchIndexZeroNotFound(c, pc) ==
    LET index == GetBlockNumberFromStartAddress(c, pc)
    IN  IF index <= 0 THEN JitPath ELSE InBlock(c.blockCodePointers[index])

\* dispatcherNoCheck: the index lookup at pc, the sign test, and the jump
\* through blockCodePointers[index] into that block's native code; a
\* negative index falls through to 'no block, let's jit'.
Dispatch(c, pc) ==
    LET index == GetBlockNumberFromStartAddress(c, pc)
    IN  IF index < 0 THEN JitPath ELSE InBlock(c.blockCodePointers[index])

\* Control arriving at the checked entry point of block n: the block's own
\* code, or, once WriteDestroyBlock has patched it, MOV pc, originalAddress
\* and a jump to the dispatcher.
EnterChecked(c, n) ==
    IF c.blocks[n].checkedEntry = "check"
    THEN InBlock(n)
    ELSE Dispatch(c, c.blocks[n].originalAddress)

\* The compiler's use of the cache on the 'no block' path: a full cache is
\* cleared first, then the block is allocated.
Jit(c, em_address) ==
    AllocateBlock(IF IsFull(c) THEN Clear(c) ELSE c, em_address)

(***************************************************************************)
(* Address translation: addresses, words and bit operations.               *)
(***************************************************************************)
\* #define HW_PAGE_SIZE 4096
HW_PAGE_SIZE == 4096

\* The number of 4 KiB pages of the 32-bit address space.
PAGE_COUNT == 1048576

\* The address (page << 12) | off.
Addr(page, off) == [page |-> page, off |-> off]

ZeroWord == Addr(0, 0)

RECURSIVE BitAnd(_, _)
BitAnd(a, b) ==
    IF a = 0 \/ b = 0
    THEN 0
    ELSE (a % 2) * (b % 2) + 2 * BitAnd(a \div 2, b \div 2)

BitOr(a, b) == a + b - BitAnd(a, b)

BitXor(a, b) == a + b - 2 * BitAnd(a, b)

\* address + n for a byte count n below the page size, in 32 bits.
AddrPlus(a, n) ==
    IF a.off + n < HW_PAGE_SIZE
    THEN Addr(a.page, a.off + n)
    ELSE Addr((a.page + 1) % PAGE_COUNT, a.off + n - HW_PAGE_SIZE)

\* enum XCheckTLBFlag
XCheckTLBFlag ==
    {"FLAG_NO_EXCEPTION", "FLAG_READ", "FLAG_WRITE", "FLAG_OPCODE", "FLAG_NO_TRANSLATE"}

(***************************************************************************)
(* Block address translation.                                              *)
(***************************************************************************)
\* Entries of a BAT table: 1 << (32 - 17).
BAT_TABLE_SIZE == 32768

\* 4 KiB pages in a 128 KiB granule: the bits of an address between the
\* shifts 12 and 17.
BAT_PAGES == 32

\* Memory::RAM_SIZE = ROUND_UP_POW2(REALRAM_SIZE)
RAM_SIZE == 33554432

\* A BAT register pair by its fields: BEPI and BL of the upper register,
\* BRPN and PP of the lower one.
ZeroBAT == [BEPI |-> 0, BL |-> 0, BRPN |-> 0, PP |-> 0]

\* The body of ComputeBATTranslations' loop, for one register pair.
ComputeBATTranslation(bat) ==
    [logical_address    |-> Addr(bat.BEPI * BAT_PAGES, 0),
     logical_size       |-> IF bat.PP = 0 THEN 0 ELSE (bat.BL + 1) * 131072,
     translated_address |-> Addr(bat.BRPN * BAT_PAGES, 0)]

\* BATTranslation t[8] = {}, filled by ComputeBATTranslations(t, base) and,
\* with extended BATs, ComputeBATTranslations(t + 4, base4).
ComputeBATTranslations(bats) ==
    [i \in 0 .. 7 |->
        IF i < 4 \/ extended_bats
        THEN ComputeBATTranslation(bats[i])
        ELSE ComputeBATTranslation(ZeroBAT)]

\* The word UpdateBATs writes at index x for translation[i]:
\* (translated_address + (j << 17)) | 0x1, in 32 bits.
BATWord(tr, x) ==
    LET j == x - (tr.logical_address.page \div BAT_PAGES)
    IN  Addr((tr.translated_address.page + j * BAT_PAGES) % PAGE_COUNT,
             BitOr(tr.translated_address.off, 1))

\* UpdateBATs with the loop over i running downwards: of the translations
\* that cover x the lowest-numbered has written last.
UpdateBATsAtFirstWins(old, t, x) ==
    LET cover == {i \in DOMAIN t :
                     /\ x >= t[i].logical_address.page \div BAT_PAGES
                     /\ x < (t[i].logical_address.page \div BAT_PAGES)
                                + (t[i].logical_size \div 131072)}
    IN  IF cover = {}
        THEN old
        ELSE BATWord(t[CHOOSE i \in cover : \A k \in cover : k >= i], x)

\* What UpdateBATs leaves at index x of the array it writes, where old was
\* before: translation[i] writes the indices start + j, j < size, and the
\* loop runs i upwards, so the last translation that covers x has written
\* last.  x may lie past the end of the table.
UpdateBATsAt(old, t, x) ==
    LET cover == {i \in DOMAIN t :
                     /\ x >= t[i].logical_address.page \div BAT_PAGES
                     /\ x < (t[i].logical_address.page \div BAT_PAGES)
                                + (t[i].logical_size \div 131072)}
    IN  IF cover = {}
        THEN old
        ELSE BATWord(t[CHOOSE i \in cover : \A k \in cover : k <= i], x)

\* static void UpdateBATs(u32* bat_table, BATTranslation *translation)
UpdateBATs(bat_table, t) ==
    [x \in DOMAIN bat_table |-> UpdateBATsAt(bat_table[x], t, x)]

\* The writes of UpdateBATs past the end of its table, landing on the
\* entries of the table the build placed behind it.
UpdateBATsOverrun(behind, t) ==
    [x \in DOMAIN behind |-> UpdateBATsAt(behind[x], t, BAT_TABLE_SIZE + x)]

\* The word UpdateFakeMMUDBat writes for its i-th granule:
\* 0x7E000001 | ((i << 17) & Memory::RAM_SIZE)
FakeMMUWord(i) ==
    Addr(BitOr(516096, BitAnd(i * BAT_PAGES, RAM_SIZE \div HW_PAGE_SIZE)), 1)

\* void UpdateFakeMMUDBat(u32 start_addr): 0x10000000 >> 17 granules from
\* start_addr >> 17 on.
UpdateFakeMMUDBat(table, start_addr) ==
    [x \in DOMAIN table |->
        LET i == x - (start_addr.page \div BAT_PAGES)
        IN  IF i >= 0 /\ i < 2048 THEN FakeMMUWord(i) ELSE table[x]]

\* The granules (address >> 17) on which the model follows the two BAT
\* tables: the first three and the fifth, two of the 0x4XXXXXXX window
\* (0x2000, 0x2100), one of the 0x7XXXXXXX window (0x3800) and the last of
\* the table.
BatIndices == {0, 1, 2, 4, 8192, 8448, 14336, 32767}

(***************************************************************************)
(* The MMU as one value, so that the operations are operators on it.       *)
(***************************************************************************)
Mmu ==
    [ppcState |-> ppcState, dbat_table |-> dbat_table, ibat_table |-> ibat_table,
     physical_base |-> physical_base, alerts |-> alerts, stuck |-> stuck]

\* DBATUpdated without its memset: UpdateBATs writes over the table as the
\* previous update left it.
DBATUpdatedWithoutClear(m) ==
    LET t == ComputeBATTranslations(m.ppcState.dbat)
        written == UpdateBATs(m.dbat_table, t)
    IN  [m EXCEPT
           !.dbat_table =
               IF bFakeVMEM
               THEN UpdateFakeMMUDBat(UpdateFakeMMUDBat(written, Addr(262144, 0)),
                                      Addr(458752, 0))
               ELSE written,
           !.ibat_table =
               IF table_layout = "dbat_first" THEN UpdateBATsOverrun(@, t) ELSE @]

\* void DBATUpdated().  Writes of UpdateBATs past the end of dbat_table
\* land on ibat_table when the build placed that table behind it.
DBATUpdated(m) ==
    LET t == ComputeBATTranslations(m.ppcState.dbat)
        cleared == [x \in DOMAIN m.dbat_table |-> ZeroWord]
        written == UpdateBATs(cleared, t)
    IN  [m EXCEPT
           !.dbat_table =
               IF bFakeVMEM
               THEN UpdateFakeMMUDBat(UpdateFakeMMUDBat(written, Addr(262144, 0)),
                                      Addr(458752, 0))
               ELSE written,
           !.ibat_table =
               IF table_layout = "dbat_first" THEN UpdateBATsOverrun(@, t) ELSE @]

\* void IBATUpdated().  Writes past the end of ibat_table land on
\* dbat_table when the build placed that table behind it.
IBATUpdated(m) ==
    LET t == ComputeBATTranslations(m.ppcState.ibat)
        cleared == [x \in DOMAIN m.ibat_table |-> ZeroWord]
    IN  [m EXCEPT
           !.ibat_table = UpdateBATs(cleared, t),
           !.dbat_table =
               IF table_layout = "ibat_first" THEN UpdateBATsOverrun(@, t) ELSE @]

(***************************************************************************)
(* The TLB and the hashed page table.                                      *)
(***************************************************************************)
\* Mask of the set index in a page number (tag & HW_PAGE_INDEX_MASK).
HW_PAGE_INDEX_MASK == 63

\* The tag of an empty way: no page number equals it.
TLB_TAG_INVALID == -1

ZeroPTE1 == [V |-> 0, VSID |-> 0, H |-> 0, API |-> 0]
ZeroPTE2 == [RPN |-> 0, R |-> 0, C |-> 0, WIMG |-> 0, PP |-> 0]

\* The sets of the TLB the model follows: those of the pages the guest
\* touches (0x10 to 0x15, 0x50, 0x90, and the first and last page of the
\* followed granules).
TlbSets == {0, 16, 17, 18, 19, 20, 21, 31, 32, 63}

\* A TLB set after reset: both ways empty.
EmptyTlbEntry ==
    [tag   |-> [w \in 0 .. 1 |-> TLB_TAG_INVALID],
     paddr |-> [w \in 0 .. 1 |-> ZeroWord],
     pte   |-> [w \in 0 .. 1 |-> ZeroPTE2],
     recent |-> 0]

\* &ppcState.tlb[flag == FLAG_OPCODE][tag & HW_PAGE_INDEX_MASK]
TlbKey(flag, page) ==
    <<IF flag = "FLAG_OPCODE" THEN 1 ELSE 0, page % (HW_PAGE_INDEX_MASK + 1)>>

\* LookupTLBPageAddress returning the cached page address without the
\* offset of vpa.
LookupTLBWithoutOffset(m, flag, vpa) ==
    LET tag == vpa.page
        key == TlbKey(flag, tag)
        tlbe == m.ppcState.tlb[key]
        way == IF tlbe.tag[0] = tag THEN 0 ELSE 1
    IN  IF tlbe.tag[0] # tag /\ tlbe.tag[1] # tag
        THEN [m |-> m, res |-> "TLB_NOTFOUND", paddr |-> ZeroWord]
        ELSE IF flag = "FLAG_WRITE" /\ tlbe.pte[way].C = 0
        THEN [m |-> [m EXCEPT !.ppcState.tlb[key].pte[way].C = 1],
              res |-> "TLB_UPDATE_C", paddr |-> ZeroWord]
        ELSE [m |-> IF flag # "FLAG_NO_EXCEPTION"
                    THEN [m EXCEPT !.ppcState.tlb[key].recent = way]
                    ELSE m,
              res |-> "TLB_FOUND",
              paddr |-> tlbe.paddr[way]]

\* static TLBLookupResult LookupTLBPageAddress(flag, vpa, u32 *paddr)
LookupTLBPageAddress(m, flag, vpa) ==
    LET tag == vpa.page
        key == TlbKey(flag, tag)
        tlbe == m.ppcState.tlb[key]
        way == IF tlbe.tag[0] = tag THEN 0 ELSE 1
    IN  IF tlbe.tag[0] # tag /\ tlbe.tag[1] # tag
        THEN [m |-> m, res |-> "TLB_NOTFOUND", paddr |-> ZeroWord]
        ELSE IF flag = "FLAG_WRITE" /\ tlbe.pte[way].C = 0
        THEN [m |-> [m EXCEPT !.ppcState.tlb[key].pte[way].C = 1],
              res |-> "TLB_UPDATE_C", paddr |-> ZeroWord]
        ELSE [m |-> IF flag # "FLAG_NO_EXCEPTION"
                    THEN [m EXCEPT !.ppcState.tlb[key].recent = way]
                    ELSE m,
              res |-> "TLB_FOUND",
              paddr |-> Addr(tlbe.paddr[way].page,
                             BitOr(tlbe.paddr[way].off, vpa.off))]

\* UpdateTLBEntry returning early for every access kind.
UpdateTLBEntrySkipped(m, flag, PTE2, address) == m

\* UpdateTLBEntry filling the data TLB for a probe too.
UpdateTLBEntryForProbes(m, flag, PTE2, address) ==
    LET tag == address.page
        key == TlbKey(flag, tag)
        tlbe == m.ppcState.tlb[key]
        index == IF tlbe.recent = 0 /\ tlbe.tag[0] # TLB_TAG_INVALID
                 THEN 1 ELSE 0
    IN  [m EXCEPT !.ppcState.tlb[key] =
            [tlbe EXCEPT !.recent = index,
                         !.paddr[index] = Addr(PTE2.RPN, 0),
                         !.pte[index] = PTE2,
                         !.tag[index] = tag]]

\* UpdateTLBEntry replacing the most recently used way.
UpdateTLBEntryEvictsRecent(m, flag, PTE2, address) ==
    IF flag = "FLAG_NO_EXCEPTION"
    THEN m
    ELSE LET tag == address.page
             key == TlbKey(flag, tag)
             tlbe == m.ppcState.tlb[key]
             index == tlbe.recent
         IN  [m EXCEPT !.ppcState.tlb[key] =
                 [tlbe EXCEPT !.recent = index,
                              !.paddr[index] = Addr(PTE2.RPN, 0),
                              !.pte[index] = PTE2,
                              !.tag[index] = tag]]

\* static void UpdateTLBEntry(flag, UPTE2 PTE2, address)
UpdateTLBEntry(m, flag, PTE2, address) ==
    IF flag = "FLAG_NO_EXCEPTION"
    THEN m
    ELSE LET tag == address.page
             key == TlbKey(flag, tag)
             tlbe == m.ppcState.tlb[key]
             index == IF tlbe.recent = 0 /\ tlbe.tag[0] # TLB_TAG_INVALID
                      THEN 1 ELSE 0
         IN  [m EXCEPT !.ppcState.tlb[key] =
                 [tlbe EXCEPT !.recent = index,
                              !.paddr[index] = Addr(PTE2.RPN, 0),
                              !.pte[index] = PTE2,
                              !.tag[index] = tag]]

\* InvalidateTLBEntry leaving the instruction TLB alone.
InvalidateTLBEntryDataOnly(m, address) ==
    LET set == address.page % (HW_PAGE_INDEX_MASK + 1)
        empty == [w \in 0 .. 1 |-> TLB_TAG_INVALID]
    IN  IF set \in TlbSets
        THEN [m EXCEPT !.ppcState.tlb[<<0, set>>].tag = empty]
        ELSE m

\* void InvalidateTLBEntry(u32 address)
InvalidateTLBEntry(m, address) ==
    LET set == address.page % (HW_PAGE_INDEX_MASK + 1)
        empty == [w \in 0 .. 1 |-> TLB_TAG_INVALID]
    IN  IF set \in TlbSets
        THEN [m EXCEPT !.ppcState.tlb[<<0, set>>].tag = empty,
                       !.ppcState.tlb[<<1, set>>].tag = empty]
        ELSE m

\* SR_VSID(v) ((v) & 0xffffff)
SR_VSID(v) == v % 16777216

\* The two words at a PTE slot of the page table in physical memory;
\* memory that holds no entry reads as zero.
PteAt(m, addr) ==
    IF addr \in DOMAIN m.physical_base.pte
    THEN m.physical_base.pte[addr]
    ELSE [pte1 |-> ZeroPTE1, pte2 |-> ZeroPTE2]

\* The probes with the H bit never asked for.
PteProbeWithoutH(m, address, n) ==
    LET VSID == SR_VSID(m.ppcState.sr[address.page \div 65536])
        masked == BitXor(VSID, address.page % 65536)
                      % (m.ppcState.pagetable_hashmask + 1)
        hash == IF n \div 8 = 1
                THEN m.ppcState.pagetable_hashmask - masked
                ELSE masked
    IN  [addr |-> hash * 64 + m.ppcState.pagetable_base + 8 * (n % 8),
         pte1 |-> [V |-> 1, VSID |-> VSID, H |-> 0,
                   API |-> (address.page \div 1024) % 64]]

\* The n-th of the 16 slots the walk probes for the address: its address
\* ((hash & pagetable_hashmask) << 6) | pagetable_base, plus 8 per slot, with
\* hash = VSID ^ page_index for the first eight and ~hash for the rest, and
\* the first word it must hold.  SDRUpdated leaves pagetable_hashmask a
\* run of low one bits and pagetable_base clear below bit 16 and in the
\* mask's bits above, so the '&' is a remainder, '~' under the mask a
\* difference from it and the '|' a sum.
PteProbe(m, address, n) ==
    LET VSID == SR_VSID(m.ppcState.sr[address.page \div 65536])
        page_index == address.page % 65536
        api == (address.page \div 1024) % 64
        hash_func == n \div 8
        masked == BitXor(VSID, page_index) % (m.ppcState.pagetable_hashmask + 1)
        hash == IF hash_func = 1
                THEN m.ppcState.pagetable_hashmask - masked
                ELSE masked
    IN  [addr |-> hash * 64 + m.ppcState.pagetable_base + 8 * (n % 8),
         pte1 |-> [V |-> 1, VSID |-> VSID, H |-> hash_func, API |-> api]]

\* The access bits with a write setting the referenced bit alone.
AccessBitsWithoutChange(PTE2, flag) ==
    CASE flag = "FLAG_READ"   -> [PTE2 EXCEPT !.R = 1]
      [] flag = "FLAG_WRITE"  -> [PTE2 EXCEPT !.R = 1]
      [] flag = "FLAG_OPCODE" -> [PTE2 EXCEPT !.R = 1]
      [] OTHER                -> PTE2

\* The access bits with the changed bit set by every access kind.
AccessBitsAlwaysChanged(PTE2, flag) ==
    IF flag = "FLAG_NO_EXCEPTION" THEN PTE2 ELSE [PTE2 EXCEPT !.R = 1, !.C = 1]

\* The access bits the walk sets in the second PTE word.
AccessBits(PTE2, flag) ==
    CASE flag = "FLAG_READ"   -> [PTE2 EXCEPT !.R = 1]
      [] flag = "FLAG_WRITE"  -> [PTE2 EXCEPT !.R = 1, !.C = 1]
      [] flag = "FLAG_OPCODE" -> [PTE2 EXCEPT !.R = 1]
      [] OTHER                -> PTE2

\* The element of a one-element set; {e(x) : x \in {v}} names the value v
\* of a step x in what follows it.
The(S) == CHOOSE x \in S : TRUE

\* No slot of the two groups matches.
NoSlot == -1

\* The address of the first of the 16 slots, in the order the walk probes
\* them, whose first word is the one the walk looks for; NoSlot if none is.
MatchingSlot(m, address) ==
    The({ IF \A n \in 0 .. 15 : PteAt(m, probes[n].addr).pte1 # probes[n].pte1
          THEN NoSlot
          ELSE probes[CHOOSE n \in 0 .. 15 :
                   /\ PteAt(m, probes[n].addr).pte1 = probes[n].pte1
                   /\ \A k \in 0 .. (n - 1) :
                         PteAt(m, probes[k].addr).pte1 # probes[k].pte1].addr
        : probes \in {[n \in 0 .. 15 |-> PteProbe(m, address, n)]} })

\* TranslatePageAddress from the matching slot on: the access bits, the
\* write back, the TLB entry and the result.
WalkHit(m, res, address, flag, pteg_addr, PTE2) ==
    [m |-> IF res # "TLB_UPDATE_C"
           THEN UpdateTLBEntry(
                    IF flag # "FLAG_NO_EXCEPTION"
                    THEN [m EXCEPT !.physical_base.pte[pteg_addr].pte2 = PTE2]
                    ELSE m,
                    flag, PTE2, address)
           ELSE IF flag # "FLAG_NO_EXCEPTION"
           THEN [m EXCEPT !.physical_base.pte[pteg_addr].pte2 = PTE2]
           ELSE m,
     valid |-> TRUE, from_bat |-> FALSE,
     address |-> Addr(PTE2.RPN, address.off), walk |-> TRUE]

\* TranslatePageAddress after the TLB lookup returned res without a hit:
\* the walk through the two groups of eight slots.  The field walk tells
\* whether the page table in physical memory was read.
WalkPageTable(m, res, address, flag) ==
    The({ IF pteg_addr = NoSlot
          THEN [m |-> m, valid |-> FALSE, from_bat |-> FALSE,
                address |-> ZeroWord, walk |-> TRUE]
          ELSE WalkHit(m, res, address, flag, pteg_addr,
                       AccessBits(PteAt(m, pteg_addr).pte2, flag))
        : pteg_addr \in {MatchingSlot(m, address)} })

\* static TranslateAddressResult TranslatePageAddress(address, flag)
TranslatePageAddress(m, address, flag) ==
    The({ IF look.res = "TLB_FOUND"
          THEN [m |-> look.m, valid |-> TRUE, from_bat |-> FALSE,
                address |-> look.paddr, walk |-> FALSE]
          ELSE WalkPageTable(look.m, look.res, address, flag)
        : look \in {LookupTLBPageAddress(m, flag, address)} })

\* template <flag> TranslateAddressResult TranslateAddress(const u32 address)
TranslateAddress(m, flag, address) ==
    LET bat_result == (IF flag = "FLAG_OPCODE" THEN m.ibat_table ELSE m.dbat_table)
                          [address.page \div BAT_PAGES]
    IN  IF bat_result.off % 2 = 1
        THEN [m |-> m, valid |-> TRUE, from_bat |-> TRUE,
              address |-> Addr(BitOr(bat_result.page, address.page % BAT_PAGES),
                               BitOr(bat_result.off - 1, address.off)),
              walk |-> FALSE]
        ELSE TranslatePageAddress(m, address, flag)

(***************************************************************************)
(* Memory accesses.  A value of width n is the sequence of its n bytes,    *)
(* most significant first; memory is the map of its non-zero bytes.        *)
(***************************************************************************)
\* Memory::REALRAM_SIZE, Memory::EXRAM_SIZE and the end of the locked cache
\* (0xE0000000 + Memory::L1_CACHE_SIZE), in pages.
REALRAM_PAGES == 6144
EXRAM_PAGES == 16384
L1_END_PAGE == 917568

\* What a read returns: the bytes, or a value the device decides (dev).
Value(bytes) == [dev |-> FALSE, bytes |-> bytes]
ZeroValue(size) == Value([k \in 1 .. size |-> 0])
DeviceValue(size) == [dev |-> TRUE, bytes |-> [k \in 1 .. size |-> 0]]

\* The region whose branch of ReadFromHardware / WriteToHardware takes a
\* physical address: m_pRAM, m_pEXRAM (mapped on a Wii), m_pL1Cache.
Region(a) ==
    CASE a.page < REALRAM_PAGES -> "RAM"
      [] a.page >= REALRAM_PAGES /\ bWii /\ a.page \div 65536 = 1
            /\ a.page % 65536 < EXRAM_PAGES -> "EXRAM"
      [] a.page \div 65536 = 14 /\ a.page < L1_END_PAGE -> "L1"
      [] OTHER -> "none"

\* (em_address & 0xF8000000) == 0x08000000: the EFB and MMIO window.
InDeviceWindow(a) == a.page \div 32768 = 1

\* One byte of a map of non-zero bytes.
ByteOf(f, a) == IF a \in DOMAIN f THEN f[a] ELSE 0

\* The map with the bytes of data stored from a on.
StoreBytes(f, a, data) ==
    LET at == {AddrPlus(a, k - 1) : k \in DOMAIN data}
        new(b) == IF b \in at
                  THEN data[CHOOSE k \in DOMAIN data : AddrPlus(a, k - 1) = b]
                  ELSE f[b]
        keep == {b \in DOMAIN f \cup at : new(b) # 0}
    IN  [b \in keep |-> new(b)]

\* The exception latched with DAR left as it was.
GenerateDSIExceptionWithoutDAR(m, effectiveAddress, write) ==
    IF ~bMMU
    THEN m
    ELSE [m EXCEPT !.ppcState.Exceptions = @ \cup {"EXCEPTION_DSI"}]

\* static void GenerateDSIException(u32 effectiveAddress, bool write)
GenerateDSIException(m, effectiveAddress, write) ==
    IF ~bMMU
    THEN [m EXCEPT !.alerts = @ \cup
             {IF write THEN "Invalid Write to" ELSE "Invalid Read from"}]
    ELSE [m EXCEPT
            !.ppcState.DSISR = IF effectiveAddress # ZeroWord
                               THEN {"PPC_EXC_DSISR_PAGE", "PPC_EXC_DSISR_STORE"}
                               ELSE {"PPC_EXC_DSISR_PAGE"},
            !.ppcState.DAR = effectiveAddress,
            !.ppcState.Exceptions = @ \cup {"EXCEPTION_DSI"}]

\* static void GenerateISIException(u32 _EffectiveAddress)
GenerateISIException(m, effectiveAddress) ==
    [m EXCEPT !.ppcState.NPC = effectiveAddress,
              !.ppcState.Exceptions = @ \cup {"EXCEPTION_ISI"}]

\* ReadFromHardware from 'int segment = em_address >> 28' on: the decoding
\* of the (physical) address.
ReadPhysical(m, flag, size, em_address) ==
    IF flag = "FLAG_READ" /\ InDeviceWindow(em_address)
    THEN [m |-> m, value |-> DeviceValue(size)]
    ELSE IF Region(em_address) # "none"
    THEN [m |-> m,
          value |-> Value([k \in 1 .. size |->
                       ByteOf(m.physical_base.bytes, AddrPlus(em_address, k - 1))])]
    ELSE [m |-> [m EXCEPT !.alerts = @ \cup {"Unable to resolve read address"}],
          value |-> ZeroValue(size)]

\* The physical address of the k-th byte (from 0) of an access that
\* straddles a page boundary: tlb_addr of the loop.
StraddleAddr(em_address, first, next, k) ==
    IF em_address.off + k < HW_PAGE_SIZE
    THEN AddrPlus(first, k)
    ELSE AddrPlus(next, em_address.off + k - HW_PAGE_SIZE)

\* The byte loop of ReadFromHardware.  Its bound em_address + sizeof(T) is
\* a sum in size_t, 64 bits wide on the targets with fake VMEM, and the
\* u32 addr stays below it for ever when the access runs over the end of
\* the address space: the loop does not end, tlb_addr sweeps the physical
\* addresses, those of no region too, and no value is returned.
ReadStraddle(m, size, em_address, first, next) ==
    IF em_address.page = PAGE_COUNT - 1
    THEN [m |-> [m EXCEPT !.stuck = TRUE,
                          !.alerts = @ \cup {"Unable to resolve read address"}],
          value |-> ZeroValue(size)]
    ELSE LET byte(k) == ReadPhysical(m, "FLAG_NO_TRANSLATE", 1,
                                     StraddleAddr(em_address, first, next, k - 1))
         IN  [m |-> [m EXCEPT !.alerts =
                        UNION {byte(k).m.alerts : k \in 1 .. size}],
              value |-> Value([k \in 1 .. size |-> byte(k).value.bytes[1]])]

\* ReadFromHardware for an access that straddles a page boundary, after
\* the first page translated to first.
ReadNextPage(m, flag, size, em_address, first) ==
    The({ IF ~tlb_addr_next_page.valid
          THEN [m |-> IF flag = "FLAG_READ"
                      THEN GenerateDSIException(
                               tlb_addr_next_page.m,
                               Addr((em_address.page + 1) % PAGE_COUNT, 0), FALSE)
                      ELSE tlb_addr_next_page.m,
                value |-> ZeroValue(size)]
          ELSE ReadStraddle(tlb_addr_next_page.m, size, em_address, first,
                            tlb_addr_next_page.address)
        : tlb_addr_next_page \in
            {TranslateAddress(m, flag, Addr((em_address.page + 1) % PAGE_COUNT, 0))} })

\* template <flag, T> static T ReadFromHardware(u32 em_address)
ReadFromHardware(m, flag, size, em_address) ==
    IF flag # "FLAG_NO_TRANSLATE" /\ m.ppcState.msr.DR = 1
    THEN The({ IF ~translated_addr.valid
               THEN [m |-> IF flag = "FLAG_READ"
                           THEN GenerateDSIException(translated_addr.m, em_address, FALSE)
                           ELSE translated_addr.m,
                     value |-> ZeroValue(size)]
               ELSE IF em_address.off > HW_PAGE_SIZE - size
               THEN ReadNextPage(translated_addr.m, flag, size, em_address,
                                 translated_addr.address)
               ELSE ReadPhysical(translated_addr.m, flag, size,
                                 translated_addr.address)
             : translated_addr \in {TranslateAddress(m, flag, em_address)} })
    ELSE ReadPhysical(m, flag, size, em_address)

\* WriteToHardware from 'int segment = em_address >> 28' on.  The GPFifo,
\* the EFB and the MMIO registers are devices outside the model.
WritePhysical(m, flag, em_address, data) ==
    IF flag = "FLAG_WRITE" /\ em_address.page = 49160
    THEN m
    ELSE IF flag = "FLAG_WRITE" /\ InDeviceWindow(em_address)
    THEN m
    ELSE IF Region(em_address) # "none"
    THEN [m EXCEPT !.physical_base.bytes = StoreBytes(@, em_address, data)]
    ELSE IF bFakeVMEM /\ em_address.off % 256 \in {126, 127}
    THEN [m EXCEPT !.physical_base.fake =
             StoreBytes(@, Addr(em_address.page % (RAM_SIZE \div HW_PAGE_SIZE),
                                em_address.off), data)]
    ELSE [m EXCEPT !.alerts = @ \cup {"Unable to resolve write address"}]

\* The byte loop of WriteToHardware: val = bswap(data) is stored from its
\* low byte on, so the bytes go out most significant first.  When the
\* access runs over the end of the address space the loop does not end, as
\* in ReadFromHardware: val has become 0 after sizeof(T) rounds, and
\* tlb_addr sweeps the physical addresses storing it.
RECURSIVE WriteStraddle(_, _, _, _, _, _)
WriteStraddle(m, em_address, first, next, data, k) ==
    IF em_address.page = PAGE_COUNT - 1
    THEN [m EXCEPT !.stuck = TRUE,
                   !.alerts = @ \cup {"Unable to resolve write address"},
                   !.physical_base.pte = <<>>,
                   !.physical_base.bytes = <<>>,
                   !.physical_base.fake = IF bFakeVMEM THEN <<>> ELSE @]
    ELSE IF k > Len(data)
    THEN m
    ELSE WriteStraddle(
             WritePhysical(m, "FLAG_NO_TRANSLATE",
                           StraddleAddr(em_address, first, next, k - 1),
                           <<data[k]>>),
             em_address, first, next, data, k + 1)

\* WriteToHardware for an access that straddles a page boundary, after the
\* first page translated to first.
WriteNextPage(m, flag, em_address, data, first) ==
    The({ IF ~tlb_addr_next_page.valid
          THEN IF flag = "FLAG_WRITE"
               THEN GenerateDSIException(
                        tlb_addr_next_page.m,
                        Addr((em_address.page + 1) % PAGE_COUNT, 0), TRUE)
               ELSE tlb_addr_next_page.m
          ELSE WriteStraddle(tlb_addr_next_page.m, em_address, first,
                             tlb_addr_next_page.address, data, 1)
        : tlb_addr_next_page \in
            {TranslateAddress(m, flag, Addr((em_address.page + 1) % PAGE_COUNT, 0))} })

\* template <flag, T> static void WriteToHardware(u32 em_address, const T data)
WriteToHardware(m, flag, em_address, data) ==
    IF flag # "FLAG_NO_TRANSLATE" /\ m.ppcState.msr.DR = 1
    THEN The({ IF ~translated_addr.valid
               THEN IF flag = "FLAG_WRITE"
                    THEN GenerateDSIException(translated_addr.m, em_address, TRUE)
                    ELSE translated_addr.m
               ELSE IF em_address.off % Len(data) # 0
                       /\ em_address.off > HW_PAGE_SIZE - Len(data)
               THEN WriteNextPage(translated_addr.m, flag, em_address, data,
                                  translated_addr.address)
               ELSE WritePhysical(translated_addr.m, flag,
                                  translated_addr.address, data)
             : translated_addr \in {TranslateAddress(m, flag, em_address)} })
    ELSE WritePhysical(m, flag, em_address, data)

\* TryReadInstResult TryReadInstruction(u32 address).  The instruction
\* cache (iCache.ReadInstruction) is a device outside the model.
TryReadInstruction(m, address) ==
    IF m.ppcState.msr.IR = 1
    THEN The({ IF ~tlb_addr.valid
               THEN [m |-> tlb_addr.m, valid |-> FALSE, from_bat |-> FALSE,
                     hex |-> ZeroValue(4)]
               ELSE [m |-> tlb_addr.m, valid |-> TRUE,
                     from_bat |-> tlb_addr.from_bat, hex |-> DeviceValue(4)]
             : tlb_addr \in {TranslateAddress(m, "FLAG_OPCODE", address)} })
    ELSE [m |-> m, valid |-> TRUE, from_bat |-> TRUE, hex |-> DeviceValue(4)]

\* Read_Opcode with no exception generated.
Read_OpcodeWithoutISI(m, address) ==
    The({ IF ~got.valid
          THEN [m |-> got.m, value |-> ZeroValue(4)]
          ELSE [m |-> got.m, value |-> got.hex]
        : got \in {TryReadInstruction(m, address)} })

\* u32 Read_Opcode(u32 address)
Read_Opcode(m, address) ==
    The({ IF ~got.valid
          THEN [m |-> GenerateISIException(got.m, address), value |-> ZeroValue(4)]
          ELSE [m |-> got.m, value |-> got.hex]
        : got \in {TryReadInstruction(m, address)} })

\* The bytes of one of the regions m_pRAM, m_pEXRAM, m_pL1Cache.
RegionBytes(m, region) ==
    [a \in {b \in DOMAIN m.physical_base.bytes : Region(b) = region} |->
        m.physical_base.bytes[a]]

\* p.DoArray(array, size) and p.DoMarker(name) of a PointerWrap that
\* writes: the array's bytes, or the marker, at the end of the stream.
DoArray(p, array, bytes) == Append(p, [array |-> array, bytes |-> bytes])
DoMarker(p, name) == Append(p, [marker |-> name])

\* Memory::DoState with the expansion RAM ahead of the fake VMEM.
DoStateEXRAMFirst(m, p) ==
    LET ram == DoMarker(DoArray(DoArray(p, "m_pRAM", RegionBytes(m, "RAM")),
                                "m_pL1Cache", RegionBytes(m, "L1")),
                        "Memory RAM")
        exram == DoMarker(IF bWii
                          THEN DoArray(ram, "m_pEXRAM", RegionBytes(m, "EXRAM"))
                          ELSE ram,
                          "Memory EXRAM")
    IN  DoMarker(IF bFakeVMEM
                 THEN DoArray(exram, "m_pFakeVMEM", m.physical_base.fake)
                 ELSE exram,
                 "Memory FakeVMEM")

\* void DoState(PointerWrap &p)
DoState(m, p) ==
    LET ram == DoMarker(DoArray(DoArray(p, "m_pRAM", RegionBytes(m, "RAM")),
                                "m_pL1Cache", RegionBytes(m, "L1")),
                        "Memory RAM")
        fake == DoMarker(IF bFakeVMEM
                         THEN DoArray(ram, "m_pFakeVMEM", m.physical_base.fake)
                         ELSE ram,
                         "Memory FakeVMEM")
    IN  DoMarker(IF bWii
                 THEN DoArray(fake, "m_pEXRAM", RegionBytes(m, "EXRAM"))
                 ELSE fake,
                 "Memory EXRAM")

(***************************************************************************)
(* CommandProcessor: the FIFO between the CPU context and the GPU context. *)
(***************************************************************************)
\* GATHER_PIPE_SIZE: the bytes one burst adds to the FIFO.
GATHER_PIPE_SIZE == 32

\* The FIFO the guest configures: CPBase, CPEnd, the two watermarks and
\* the breakpoint it writes to the FIFO registers.
FifoBase == 0
FifoEnd == 64
FifoHiWatermark == 32
FifoLoWatermark == 32
FifoBreakpoint == 32

\* At most this many scheduled events are followed.
MaxEvents == 3

\* SConfig bCPUThread: the GPU runs on a thread of its own.
IsOnThread == TRUE

\* memset(&cpuFifo, 0, sizeof(cpuFifo)) of Init(), then the guest's writes
\* to FIFO_BASE, FIFO_END, the watermark registers and FIFO_BP.
GuestFifo ==
    [CPBase |-> FifoBase, CPEnd |-> FifoEnd,
     CPHiWatermark |-> FifoHiWatermark, CPLoWatermark |-> FifoLoWatermark,
     CPWritePointer |-> FifoBase, CPReadPointer |-> FifoBase,
     SafeCPReadPointer |-> FifoBase, CPBreakpoint |-> FifoBreakpoint,
     bFF_GPReadEnable |-> FALSE, bFF_BPEnable |-> FALSE, bFF_BPInt |-> FALSE,
     bFF_Breakpoint |-> FALSE, bFF_GPLinkEnable |-> FALSE,
     bFF_HiWatermarkInt |-> FALSE, bFF_HiWatermark |-> FALSE,
     bFF_LoWatermarkInt |-> FALSE, bFF_LoWatermark |-> FALSE]

\* m_CPCtrlReg.Hex = 0
ZeroCtrl ==
    [GPReadEnable |-> FALSE, BPEnable |-> FALSE, BPInt |-> FALSE,
     FifoOverflowIntEnable |-> FALSE, FifoUnderflowIntEnable |-> FALSE,
     GPLinkEnable |-> FALSE]

\* The values the guest writes to CTRL_REGISTER: reading enabled and
\* linked without interrupts, with the watermark interrupts, with the
\* breakpoint and its interrupt, and reading disabled.
CtrlValues ==
    {[ZeroCtrl EXCEPT !.GPReadEnable = TRUE, !.GPLinkEnable = TRUE],
     [ZeroCtrl EXCEPT !.GPReadEnable = TRUE, !.GPLinkEnable = TRUE,
                      !.FifoOverflowIntEnable = TRUE,
                      !.FifoUnderflowIntEnable = TRUE],
     [ZeroCtrl EXCEPT !.GPReadEnable = TRUE, !.GPLinkEnable = TRUE,
                      !.BPEnable = TRUE, !.BPInt = TRUE],
     [ZeroCtrl EXCEPT !.GPLinkEnable = TRUE]}

\* SCPFifoStruct *gpuFifo: &cpuFifo except when deterministicGPUSync is on.
gpuFifo == IF deterministicGPUSync THEN gpuFifoCopy ELSE cpuFifo

\* AtBreakpointGpu()
AtBreakpointGpu ==
    gpuFifo.bFF_BPEnable /\ gpuFifo.CPReadPointer = gpuFifo.CPBreakpoint

\* The test of GPUHasWork with the comparison of the pointers left out.
GPUHasWorkWhateverThePointers ==
    /\ gpuRunning
    /\ gpuFifo.bFF_GPReadEnable
    /\ ~interruptWaiting
    /\ ~AtBreakpointGpu

\* bool GPUHasWork()
GPUHasWork ==
    /\ gpuRunning
    /\ gpuFifo.bFF_GPReadEnable
    /\ ~interruptWaiting
    /\ gpuFifo.CPReadPointer # gpuFifo.CPWritePointer
    /\ ~AtBreakpointGpu

\* static u32 GetReadWriteDistance(): the pointers lie in [CPBase, CPEnd],
\* so the u32 difference, with CPEnd - CPBase added after a wrap, is the
\* difference of the numbers.
GetReadWriteDistance ==
    LET result == cpuFifo.CPWritePointer - cpuFifo.SafeCPReadPointer
                    + (IF cpuFifo.CPWritePointer < cpuFifo.SafeCPReadPointer
                       THEN cpuFifo.CPEnd - cpuFifo.CPBase ELSE 0)
    IN  IF deterministicGPUSync /\ result > 32 THEN 32 ELSE result

\* SetCpStatus up to 'bool interrupt': the watermark and breakpoint flags
\* it stores in cpuFifo.
StatusFlags ==
    [cpuFifo EXCEPT
       !.bFF_HiWatermark =
           IF deterministicGPUSync THEN FALSE
           ELSE GetReadWriteDistance > cpuFifo.CPHiWatermark,
       !.bFF_LoWatermark =
           IF deterministicGPUSync THEN FALSE
           ELSE GetReadWriteDistance < cpuFifo.CPLoWatermark,
       !.bFF_Breakpoint =
           cpuFifo.bFF_BPEnable /\ cpuFifo.CPBreakpoint = cpuFifo.CPReadPointer]

\* bool interrupt = (bpInt || ovfInt || undfInt) && m_CPCtrlReg.GPReadEnable
InterruptOf(fifo) ==
    /\ \/ fifo.bFF_Breakpoint /\ fifo.bFF_BPInt
       \/ fifo.bFF_HiWatermark /\ fifo.bFF_HiWatermarkInt
       \/ fifo.bFF_LoWatermark /\ fifo.bFF_LoWatermarkInt
    /\ m_CPCtrlReg.GPReadEnable

\* The next position of a FIFO pointer: CPBase after CPEnd.
NextPointer(fifo, pointer) ==
    IF pointer >= fifo.CPEnd THEN fifo.CPBase ELSE pointer + GATHER_PIPE_SIZE

\* A context outside every handler.
IdleThread == [pc |-> "idle", todo |-> <<>>, userdata |-> FALSE, event |-> FALSE]

\* The GPU context before its loop has started.
StoppedThread == [pc |-> "stopped", userdata |-> FALSE]

\* The return of a handler of the CPU context to its caller.
Return(t) ==
    IF t.todo = <<>>
    THEN IdleThread
    ELSE [t EXCEPT !.pc = Head(t.todo), !.todo = Tail(t.todo)]

\* CommandProcessor::Init(), the guest's set-up of the FIFO, and
\* UpdateDeterministicGPUSync() with either setting.
CPInit ==
    /\ cpuFifo = GuestFifo
    /\ gpuFifoCopy = GuestFifo
    /\ m_CPCtrlReg = ZeroCtrl
    /\ interruptSet = FALSE
    /\ interruptWaiting = FALSE
    /\ gpuRunning = FALSE
    /\ deterministicGPUSync = FALSE
    /\ events = <<>>
    /\ cpuThread = IdleThread
    /\ gpuThread = StoppedThread

(***************************************************************************)
(* The state machine.                                                      *)
(***************************************************************************)
\* The blocks AllocateBlock returned and FinalizeBlock has not yet seen.
Pending(c) == {n \in 0 .. (c.num_blocks - 1) : c.blockCodePointers[n] = NullPtr}

\* The finalized blocks that are not invalid.
Live(c, n) ==
    /\ n \in 0 .. (c.num_blocks - 1)
    /\ c.blockCodePointers[n] # NullPtr
    /\ ~c.blocks[n].invalid

Install(c) ==
    /\ blocks' = c.blocks
    /\ num_blocks' = c.num_blocks
    /\ blockCodePointers' = c.blockCodePointers
    /\ links_to' = c.links_to
    /\ block_map' = c.block_map
    /\ valid_block' = c.valid_block
    /\ m_phys_addrs' = c.m_phys_addrs
    /\ fifoWriteAddresses' = c.fifoWriteAddresses
    /\ alerts' = c.alerts
    /\ UNCHANGED <<mmuVars, cpVars>>

cacheVars == <<blocks, num_blocks, blockCodePointers, links_to, block_map,
               valid_block, m_phys_addrs, fifoWriteAddresses, alerts>>

\* The cache at the start of an operation: no alert raised yet.
Quiet == [Cache EXCEPT !.alerts = {}]

\* JitBaseBlockCache(), then Init(): Clear() on the empty cache.
CacheInit ==
    /\ blocks = [n \in BlockIds |-> FreshBlock]
    /\ num_blocks = 0
    /\ blockCodePointers = [n \in BlockIds |-> NullPtr]
    /\ links_to = EmptyBag
    /\ block_map = <<>>
    /\ valid_block = {}
    /\ m_phys_addrs = <<>>
    /\ fifoWriteAddresses = {}
    /\ alerts = {}
    /\ leftUnlinked = {}
    /\ entered = NotEntered

\* PowerPC::ppcState after reset: no BAT pair enabled, no segment mapped,
\* every TLB way empty, translation off, no exception pending.
ResetPpcState ==
    [dbat |-> [i \in 0 .. 7 |-> ZeroBAT],
     ibat |-> [i \in 0 .. 7 |-> ZeroBAT],
     sr   |-> [s \in 0 .. 15 |-> 0],
     tlb  |-> [k \in (0 .. 1) \X TlbSets |-> EmptyTlbEntry],
     pagetable_base |-> 0,
     pagetable_hashmask |-> 0,
     msr |-> [DR |-> 0, IR |-> 0],
     Exceptions |-> {},
     DAR |-> ZeroWord,
     DSISR |-> {},
     NPC |-> ZeroWord]

\* The memory Memory::Init() hands out: every byte zero.
ZeroMemory == [pte |-> <<>>, bytes |-> <<>>, fake |-> <<>>]

\* The MMU after reset, in a build with the MMU emulated and the cache
\* under test: the BAT tables are zero-initialised globals.
MmuReset ==
    /\ ppcState = ResetPpcState
    /\ dbat_table = [x \in BatIndices |-> ZeroWord]
    /\ ibat_table = [x \in BatIndices |-> ZeroWord]
    /\ physical_base = ZeroMemory
    /\ bMMU = TRUE
    /\ bFakeVMEM = FALSE
    /\ bWii = FALSE
    /\ extended_bats = FALSE
    /\ table_layout = "apart"
    /\ stuck = FALSE
    /\ pointerWrap = <<>>
    /\ CPInit

Init == CacheInit /\ MmuReset

\* The compiler asks for a block at em_address (capacity was checked).
DoAllocate ==
    \E em_address \in StartAddrs :
        /\ Pending(Cache) = {}
        /\ ~IsFull(Cache)
        /\ Install(AllocateBlock(Quiet, em_address))
        /\ UNCHANGED leftUnlinked
        /\ entered' = NotEntered

\* The compiler generates the pending block's code and finalizes it.
DoFinalize ==
    \E block_num \in Pending(Cache), block_link \in BOOLEAN :
        \E gen \in CodeGen(blocks[block_num].originalAddress) :
            LET c == FinalizeBlock(Populate(Quiet, block_num, gen),
                                   block_num, block_link, block_num)
            IN  /\ Install(c)
                /\ leftUnlinked' =
                      IF block_link
                      THEN leftUnlinked \cup
                           {<<block_num, k>> : k \in
                               {j \in DOMAIN c.blocks[block_num].linkData :
                                   ~c.blocks[block_num].linkData[j].linkStatus}}
                      ELSE leftUnlinked
                /\ entered' = NotEntered

DoInvalidate ==
    \E address \in InvAddrs, length \in InvLengths, forced \in BOOLEAN :
        /\ Pending(Cache) = {}
        /\ Install(InvalidateICache(Quiet, address, length, forced))
        /\ UNCHANGED leftUnlinked
        /\ entered' = NotEntered

DoClear ==
    /\ Pending(Cache) = {}
    /\ Install(Clear(Quiet))
    /\ leftUnlinked' = {}
    /\ entered' = NotEntered

\* The compiler finds the cache full: it clears it, then asks for the block.
DoAllocateFull ==
    \E em_address \in StartAddrs :
        /\ Pending(Cache) = {}
        /\ IsFull(Cache)
        /\ Install(Jit(Quiet, em_address))
        /\ leftUnlinked' = {}
        /\ entered' = NotEntered

\* The JIT records an instruction address as one that writes to the FIFO.
DoFifoHint ==
    \E address \in FifoAddrs :
        /\ address \notin fifoWriteAddresses
        /\ fifoWriteAddresses' = fifoWriteAddresses \cup {address}
        /\ alerts' = {}
        /\ entered' = NotEntered
        /\ UNCHANGED <<blocks, num_blocks, blockCodePointers, links_to,
                       block_map, valid_block, m_phys_addrs, leftUnlinked,
                       mmuVars, cpVars>>

Next ==
    DoAllocate \/ DoAllocateFull \/ DoFinalize \/ DoInvalidate \/ DoClear

\* The cache driven through its interface, in any order.
Spec == Init /\ [][Next]_vars

\* The dispatcher finds a block at pc and jumps into it.
DispatchRun ==
    \E pc \in LookupAddrs :
        /\ Pending(Cache) = {}
        /\ Dispatch(Cache, pc) # JitPath
        /\ entered' = Dispatch(Cache, pc)
        /\ UNCHANGED <<cacheVars, leftUnlinked, mmuVars, cpVars>>

\* The dispatcher finds no block at pc and calls the compiler.
DispatchJit ==
    \E pc \in StartAddrs :
        /\ Pending(Cache) = {}
        /\ Dispatch(Cache, pc) = JitPath
        /\ Install(Jit(Quiet, pc))
        /\ leftUnlinked' = IF IsFull(Cache) THEN {} ELSE leftUnlinked
        /\ entered' = JitPath

\* A running (live) block leaves through an exit that was patched to jump
\* to the checked entry of block exitPtrs.
FollowExit ==
    \E n \in BlockIds :
        /\ Pending(Cache) = {}
        /\ Live(Cache, n)
        /\ \E k \in DOMAIN blocks[n].linkData :
              /\ blocks[n].linkData[k].exitPtrs # NoBlock
              /\ entered' = EnterChecked(Cache, blocks[n].linkData[k].exitPtrs)
        /\ UNCHANGED <<cacheVars, leftUnlinked, mmuVars, cpVars>>

NextDisp ==
    \/ DispatchRun \/ DispatchJit \/ DoFinalize \/ DoInvalidate \/ DoClear
    \/ FollowExit \/ DoFifoHint

\* The cache driven as the dispatcher drives it: a block is compiled at pc
\* only when the lookup at pc reports none.
SpecDisp == Init /\ [][NextDisp]_vars

(***************************************************************************)
(* The guest programs the BAT registers.                                   *)
(***************************************************************************)
\* The register pairs the guest writes: none, granules 0-1, granules 1-2
\* (overlapping the former), one granule of the 0x4XXXXXXX window, and a
\* pair of two granules based at the last granule of the address space.
BatValues ==
    {ZeroBAT,
     [BEPI |-> 0,     BL |-> 1, BRPN |-> 64,  PP |-> 2],
     [BEPI |-> 1,     BL |-> 1, BRPN |-> 256, PP |-> 1],
     [BEPI |-> 8192,  BL |-> 0, BRPN |-> 5,   PP |-> 2],
     [BEPI |-> 32767, BL |-> 1, BRPN |-> 16,  PP |-> 2]}

\* The values the guest writes to instruction pairs.
IBatValues ==
    {ZeroBAT,
     [BEPI |-> 0,     BL |-> 1, BRPN |-> 64,  PP |-> 2],
     [BEPI |-> 32767, BL |-> 1, BRPN |-> 16,  PP |-> 2]}

\* The data pairs the guest writes: two of the first four and an extended
\* one.
DBatPairs == {0, 1, 4}

\* The instruction pairs the guest writes.
IBatPairs == {0}

\* A PTE slot's two words.
PTE(vsid, h, api, rpn) ==
    [pte1 |-> [V |-> 1, VSID |-> vsid, H |-> h, API |-> api],
     pte2 |-> [ZeroPTE2 EXCEPT !.RPN = rpn, !.PP = 2]]

\* The segment registers the guest loaded: VSID 5 for segment 0, VSID 7
\* for segment 15.
GuestSR == [s \in 0 .. 15 |-> CASE s = 0 -> 5 [] s = 15 -> 7 [] OTHER -> 0]

\* The page table the guest built at 0x10000 (SDR1: HTABORG 1, HTABMASK 0),
\* by slot address:
\*   page 0x10: primary group, slot 0, to page 0x20 of RAM;
\*   page 0x11: secondary group, slot 3, H set, to page 0x30 of RAM;
\*   page 0x12: no entry;
\*   page 0x13: primary group, slot 2, to page 0x5000, where no region is;
\*   page 0x14: secondary group, slot 0, H clear (matches nothing);
\*   page 0x15: primary group, slot 1, H set (matches nothing);
\*   pages 0x50 and 0x90 (the TLB set of page 0x10): primary group, slot 0,
\*   to pages 0x22 and 0x23 of RAM;
\*   page 0xFFFFF, the last one: primary group, slot 0, to page 0x20;
\*   page 0, the one after it: primary group, slot 0, to page 0x30.
GuestPageTable ==
    (66880 :> PTE(5, 0, 0, 32)) @@ (129752 :> PTE(5, 1, 0, 48)) @@
    (66960 :> PTE(5, 0, 0, 20480)) @@ (129920 :> PTE(5, 0, 0, 36)) @@
    (66568 :> PTE(5, 1, 0, 37)) @@ (70976 :> PTE(5, 0, 0, 34)) @@
    (75072 :> PTE(5, 0, 0, 35)) @@ (130560 :> PTE(7, 0, 63, 32)) @@
    (65856 :> PTE(5, 0, 0, 48))

\* The bytes a program left around the end of page 0x20 of RAM, at the
\* start of the page behind it and at the start of page 0x30.
GuestBytes ==
    [a \in {Addr(32, o) : o \in 4089 .. 4095}
            \cup {Addr(33, o) : o \in 0 .. 6}
            \cup {Addr(48, o) : o \in 0 .. 6} |->
        CASE a.page = 32 -> a.off - 4088
          [] a.page = 33 -> 33 + a.off
          [] a.page = 48 -> 65 + a.off]

\* ppcState once the guest has loaded SDR1 (SDRUpdated) and the segment
\* registers.
GuestPpcState ==
    [ResetPpcState EXCEPT !.sr = GuestSR,
                          !.pagetable_base = 65536,
                          !.pagetable_hashmask = 1023]

InstallMmu(m) ==
    /\ ppcState' = m.ppcState
    /\ dbat_table' = m.dbat_table
    /\ ibat_table' = m.ibat_table
    /\ physical_base' = m.physical_base
    /\ alerts' = m.alerts
    /\ stuck' = m.stuck
    /\ UNCHANGED <<blocks, num_blocks, blockCodePointers, links_to, block_map,
                   valid_block, m_phys_addrs, fifoWriteAddresses,
                   leftUnlinked, entered>>
    /\ UNCHANGED <<bFakeVMEM, bMMU, bWii, extended_bats, table_layout, pointerWrap>>
    /\ UNCHANGED cpVars

\* The MMU at the start of an operation: no alert raised yet.
QuietMmu == [Mmu EXCEPT !.alerts = {}]

\* Any layout of the tables, with or without the MMU emulated (on 64-bit
\* targets bFakeVMEM = !bMMU), on a GameCube or on a Wii with HID4.SBE set.
InitBAT ==
    /\ CacheInit
    /\ ppcState = GuestPpcState
    /\ dbat_table = [x \in BatIndices |-> ZeroWord]
    /\ ibat_table = [x \in BatIndices |-> ZeroWord]
    /\ physical_base = [ZeroMemory EXCEPT !.pte = GuestPageTable]
    /\ bMMU \in BOOLEAN
    /\ bFakeVMEM = ~bMMU
    /\ bWii \in BOOLEAN
    /\ extended_bats = bWii
    /\ table_layout \in {"dbat_first", "ibat_first", "apart"}
    /\ stuck = FALSE
    /\ pointerWrap = <<>>
    /\ CPInit

\* mtspr to a DBAT register pair, then DBATUpdated().
DoWriteDBAT ==
    \E i \in DBatPairs, v \in BatValues :
        /\ ppcState.dbat[i] # v
        /\ InstallMmu(DBATUpdated([QuietMmu EXCEPT !.ppcState.dbat[i] = v]))

\* mtspr to an IBAT register pair, then IBATUpdated().
DoWriteIBAT ==
    \E i \in IBatPairs, v \in IBatValues :
        /\ ppcState.ibat[i] # v
        /\ InstallMmu(IBATUpdated([QuietMmu EXCEPT !.ppcState.ibat[i] = v]))

NextBAT == DoWriteDBAT \/ DoWriteIBAT

SpecBAT == InitBAT /\ [][NextBAT]_vars

(***************************************************************************)
(* The guest accesses memory through the MMU.                              *)
(***************************************************************************)
\* The reads of the guest, <<width, address>>: a byte of page 0x10; from the
\* end of page 0x10 into page 0x11, at widths 2 and 4; from the end of page
\* 0x11 into page 0x12, which has no entry; a byte of page 0x12; a word of
\* page 0x13, which maps where no region is; a byte of the pages 0x50 and
\* 0x90; eight bytes from the end of page 0x10 on; two bytes from the last
\* byte of the address space on.
ReadAccesses ==
    {<<1, Addr(16, 0)>>, <<2, Addr(16, 4095)>>, <<4, Addr(16, 4093)>>,
     <<2, Addr(17, 4095)>>, <<1, Addr(18, 0)>>, <<4, Addr(19, 124)>>,
     <<1, Addr(80, 0)>>, <<1, Addr(144, 0)>>, <<8, Addr(16, 4090)>>,
     <<2, Addr(1048575, 4095)>>}

\* The reads of the host (debugger), which must not disturb the guest.
HostAccesses == {<<4, Addr(16, 0)>>, <<4, Addr(18, 0)>>}

\* The writes of the guest, <<width, address>>: from the end of page 0x10
\* into page 0x11; a byte of page 0x13 at an address with low byte 0x7E; a
\* word of page 0x12.
WriteAccesses ==
    {<<4, Addr(16, 4093)>>, <<1, Addr(19, 126)>>, <<4, Addr(18, 0)>>}

\* The value the guest writes at a width.
WriteData(size) == [k \in 1 .. size |-> 160 + k]

\* The addresses the guest fetches instructions from: in page 0x10, and in
\* page 0x12, which has no entry.
FetchAddrs == {Addr(16, 0), Addr(18, 8)}

\* The guest after it has set up its page table, with data and
\* instruction translation both on or both off, on any build: the MMU
\* emulated, or not and fake VMEM in its place (bFakeVMEM = !bMMU), on a
\* GameCube.  No BAT pair is enabled; DBATUpdated() has run.
InitMMU ==
    /\ CacheInit
    /\ bMMU \in BOOLEAN
    /\ bFakeVMEM = ~bMMU
    /\ bWii = FALSE
    /\ extended_bats = FALSE
    /\ table_layout = "apart"
    /\ stuck = FALSE
    /\ pointerWrap = <<>>
    /\ CPInit
    /\ \E on \in 0 .. 1 :
          ppcState = [GuestPpcState EXCEPT !.msr = [DR |-> on, IR |-> on]]
    /\ physical_base = [pte |-> GuestPageTable, bytes |-> GuestBytes, fake |-> <<>>]
    /\ ibat_table = [x \in BatIndices |-> ZeroWord]
    /\ dbat_table =
          DBATUpdated([ppcState |-> ppcState,
                       dbat_table |-> [x \in BatIndices |-> ZeroWord],
                       ibat_table |-> ibat_table,
                       physical_base |-> physical_base,
                       alerts |-> {}, stuck |-> FALSE]).dbat_table

\* Read_U8 .. Read_U64.
DoRead ==
    \E acc \in ReadAccesses :
      /\ ~stuck
      /\ \E r \in {ReadFromHardware(QuietMmu, "FLAG_READ", acc[1], acc[2])} :
            InstallMmu(r.m)

\* HostRead_U8 .. HostRead_U64.
DoHostRead ==
    \E acc \in HostAccesses :
        \E r \in {ReadFromHardware(QuietMmu, "FLAG_NO_EXCEPTION", acc[1], acc[2])} :
            InstallMmu(r.m)

\* Write_U8 .. Write_U64.
DoWrite ==
    \E acc \in WriteAccesses :
        /\ ~stuck
        /\ InstallMmu(WriteToHardware(QuietMmu, "FLAG_WRITE", acc[2],
                                      WriteData(acc[1])))

\* Read_Opcode.
DoFetch ==
    \E address \in FetchAddrs :
      /\ ~stuck
      /\ \E r \in {Read_Opcode(QuietMmu, address)} :
            InstallMmu(r.m)

NextMMU == DoRead \/ DoHostRead \/ DoWrite \/ DoFetch

SpecMMU == InitMMU /\ [][NextMMU]_vars

(***************************************************************************)
(* The guest accesses memory and invalidates TLB entries.                  *)
(***************************************************************************)
\* The addresses the guest invalidates the TLB entries of.
TlbieAddrs == {Addr(16, 0)}

\* The guest with the MMU emulated and translation on.
InitTLB == InitMMU /\ bMMU /\ ppcState.msr.DR = 1

\* tlbie: InvalidateTLBEntry.
DoInvalidateTLB ==
    \E address \in TlbieAddrs :
        /\ ~stuck
        /\ InstallMmu(InvalidateTLBEntry(QuietMmu, address))

NextTLB == NextMMU \/ DoInvalidateTLB

SpecTLB == InitTLB /\ [][NextTLB]_vars

(***************************************************************************)
(* The memory is written with translation off and saved.                   *)
(***************************************************************************)
\* The physical addresses written: in m_pRAM, in m_pL1Cache, in m_pEXRAM
\* (on a Wii) and one that lands in m_pFakeVMEM (where the build has it).
PokeAddrs == {Addr(1, 0), Addr(917504, 4), Addr(65536, 8), Addr(516096, 126)}

\* The bytes written.
PokeValues == {7, 9}

\* Memory after Memory::Init() on any target: on a GameCube or a Wii, with
\* the MMU emulated or not, with fake VMEM in its place where the target
\* has room for it (bFakeVMEM stays false on a 32-bit target).
InitState ==
    /\ CacheInit
    /\ ppcState = ResetPpcState
    /\ dbat_table = [x \in BatIndices |-> ZeroWord]
    /\ ibat_table = [x \in BatIndices |-> ZeroWord]
    /\ physical_base = ZeroMemory
    /\ bMMU \in BOOLEAN
    /\ bFakeVMEM \in {FALSE, ~bMMU}
    /\ bWii \in BOOLEAN
    /\ extended_bats = FALSE
    /\ table_layout = "apart"
    /\ stuck = FALSE
    /\ pointerWrap = <<>>
    /\ CPInit

\* Write_U8 with data translation off.
DoPoke ==
    \E a \in PokeAddrs, v \in PokeValues :
        InstallMmu(WriteToHardware(QuietMmu, "FLAG_WRITE", a, <<v>>))

\* State::SaveAs: Memory::DoState on a PointerWrap that writes.
DoSaveState ==
    /\ pointerWrap' = DoState(Mmu, <<>>)
    /\ UNCHANGED <<cacheVars, leftUnlinked, entered, ppcState, dbat_table,
                   ibat_table, physical_base, bFakeVMEM, bMMU, bWii,
                   extended_bats, table_layout, stuck, cpVars>>

NextState == DoPoke \/ DoSaveState

SpecState == InitState /\ [][NextState]_vars

(***************************************************************************)
(* The two contexts of the CommandProcessor.  A handler is a chain of      *)
(* steps; between two steps of one context the other context may run.      *)
(***************************************************************************)
\* Init() of every subsystem, the guest's FIFO set up, with deterministic
\* GPU sync off or on, the GPU loop not yet started.
InitCP ==
    /\ CacheInit
    /\ ppcState = ResetPpcState
    /\ dbat_table = [x \in BatIndices |-> ZeroWord]
    /\ ibat_table = [x \in BatIndices |-> ZeroWord]
    /\ physical_base = ZeroMemory
    /\ bMMU = TRUE
    /\ bFakeVMEM = FALSE
    /\ bWii = FALSE
    /\ extended_bats = FALSE
    /\ table_layout = "apart"
    /\ stuck = FALSE
    /\ pointerWrap = <<>>
    /\ cpuFifo = GuestFifo
    /\ gpuFifoCopy = GuestFifo
    /\ m_CPCtrlReg = ZeroCtrl
    /\ interruptSet = FALSE
    /\ interruptWaiting = FALSE
    /\ gpuRunning = FALSE
    /\ deterministicGPUSync \in BOOLEAN
    /\ events = <<>>
    /\ cpuThread = IdleThread
    /\ gpuThread = StoppedThread

\* The guest starts a handler while the scheduled events, the one the GPU
\* context is about to schedule included, leave room for the two more that
\* the GPU context can schedule until the handler has run.
HandlerRoom ==
    Len(events) + 2
        + (IF gpuThread.pc \in {"interruptWaiting = true",
                                "UpdateInterruptsFromVideoBackend"}
           THEN 1 ELSE 0) <= MaxEvents

\* What no step of the CommandProcessor touches.
CPFrame == UNCHANGED <<cacheVars, leftUnlinked, entered, mmuVars>>

\* The guest writes CTRL_REGISTER: SetCpControlRegister() up to its call
\* of SyncGPU(); SyncGPU() and SetCpStatus(true) follow.
CpuSetCpControlRegister ==
    \E ctrl \in CtrlValues :
        /\ cpuThread.pc = "idle"
        /\ HandlerRoom
        /\ m_CPCtrlReg' = ctrl
        /\ cpuFifo' = [cpuFifo EXCEPT
                         !.bFF_BPInt = ctrl.BPInt,
                         !.bFF_BPEnable = ctrl.BPEnable,
                         !.bFF_HiWatermarkInt = ctrl.FifoOverflowIntEnable,
                         !.bFF_LoWatermarkInt = ctrl.FifoUnderflowIntEnable,
                         !.bFF_GPLinkEnable = ctrl.GPLinkEnable,
                         !.bFF_GPReadEnable = ctrl.GPReadEnable]
        /\ cpuThread' = [IdleThread EXCEPT !.pc = "SyncGPU",
                                            !.todo = <<"SetCpStatus">>]
        /\ UNCHANGED <<gpuFifoCopy, interruptSet, interruptWaiting, gpuRunning,
                       deterministicGPUSync, events, gpuThread>>
        /\ CPFrame

\* SyncGPU() once 'while (GPUHasWork()) YieldCPU()' has ended; a pass
\* through the loop that finds work changes nothing.  With deterministic
\* sync the read pointers are fetched from _gpuFifo, _gpuFifo is
\* overwritten with cpuFifo and SetCpStatus(true) follows.
CpuSyncGPU ==
    /\ cpuThread.pc = "SyncGPU"
    /\ ~(IsOnThread /\ GPUHasWork)
    /\ IF deterministicGPUSync
       THEN /\ cpuFifo' = [cpuFifo EXCEPT
                             !.CPReadPointer = gpuFifoCopy.CPReadPointer,
                             !.SafeCPReadPointer = gpuFifoCopy.SafeCPReadPointer]
            /\ gpuFifoCopy' = cpuFifo'
            /\ cpuThread' = [cpuThread EXCEPT !.pc = "SetCpStatus"]
       ELSE /\ UNCHANGED <<cpuFifo, gpuFifoCopy>>
            /\ cpuThread' = Return(cpuThread)
    /\ UNCHANGED <<m_CPCtrlReg, interruptSet, interruptWaiting, gpuRunning,
                   deterministicGPUSync, events, gpuThread>>
    /\ CPFrame

\* SetCpStatus(true) up to the test 'interrupt != interruptSet &&
\* !interruptWaiting'.
CpuSetCpStatus ==
    /\ cpuThread.pc = "SetCpStatus"
    /\ cpuFifo' = StatusFlags
    /\ cpuThread' =
          IF InterruptOf(StatusFlags) # interruptSet /\ ~interruptWaiting
          THEN [cpuThread EXCEPT !.pc = "UpdateInterrupts",
                                 !.userdata = InterruptOf(StatusFlags),
                                 !.event = FALSE]
          ELSE Return(cpuThread)
    /\ UNCHANGED <<gpuFifoCopy, m_CPCtrlReg, interruptSet, interruptWaiting,
                   gpuRunning, deterministicGPUSync, events, gpuThread>>
    /\ CPFrame

\* UpdateInterrupts(userdata): interruptSet and
\* ProcessorInterface::SetInterrupt(INT_CAUSE_CP, ..).
CpuUpdateInterrupts ==
    /\ cpuThread.pc = "UpdateInterrupts"
    /\ interruptSet' = cpuThread.userdata
    /\ cpuThread' = [cpuThread EXCEPT !.pc = "interruptWaiting = false"]
    /\ UNCHANGED <<cpuFifo, gpuFifoCopy, m_CPCtrlReg, interruptWaiting,
                   gpuRunning, deterministicGPUSync, events, gpuThread>>
    /\ CPFrame

\* UpdateInterrupts(userdata): interruptWaiting = false.
CpuClearWaiting ==
    /\ cpuThread.pc = "interruptWaiting = false"
    /\ interruptWaiting' = FALSE
    /\ cpuThread' = Return(cpuThread)
    /\ UNCHANGED <<cpuFifo, gpuFifoCopy, m_CPCtrlReg, interruptSet,
                   gpuRunning, deterministicGPUSync, events, gpuThread>>
    /\ CPFrame

\* CoreTiming runs a scheduled et_UpdateInterrupts event on the CPU
\* context: UpdateInterrupts_Wrapper(userdata, cyclesLate).
CpuRunEvent ==
    /\ cpuThread.pc = "idle"
    /\ events # <<>>
    /\ events' = Tail(events)
    /\ cpuThread' = [IdleThread EXCEPT !.pc = "UpdateInterrupts",
                                        !.userdata = Head(events),
                                        !.event = TRUE]
    /\ UNCHANGED <<cpuFifo, gpuFifoCopy, m_CPCtrlReg, interruptSet,
                   interruptWaiting, gpuRunning, deterministicGPUSync,
                   gpuThread>>
    /\ CPFrame

\* GatherPipeBursted() with the FIFO linked.  ProcessFifoEvents() at its
\* head runs the scheduled events as CpuRunEvent does, so the burst starts
\* once it has nothing to run.  When the new write pointer meets the read
\* pointer, deterministic sync calls SyncGPU() first.
CpuGatherPipeBursted ==
    /\ cpuThread.pc = "idle"
    /\ HandlerRoom
    /\ m_CPCtrlReg.GPLinkEnable
    /\ ~(IsOnThread /\ ~deterministicGPUSync /\ interruptWaiting /\ events # <<>>)
    /\ IF /\ NextPointer(cpuFifo, cpuFifo.CPWritePointer) = cpuFifo.CPReadPointer
          /\ deterministicGPUSync
       THEN /\ cpuThread' = [IdleThread EXCEPT !.pc = "SyncGPU",
                                                !.todo = <<"AtomicStore">>]
            /\ UNCHANGED <<cpuFifo, gpuFifoCopy>>
       ELSE /\ cpuFifo' = [cpuFifo EXCEPT !.CPWritePointer = NextPointer(cpuFifo, @)]
            /\ gpuFifoCopy' =
                  IF deterministicGPUSync
                  THEN [gpuFifoCopy EXCEPT !.CPWritePointer =
                           NextPointer(cpuFifo, cpuFifo.CPWritePointer)]
                  ELSE gpuFifoCopy
            /\ cpuThread' =
                  IF deterministicGPUSync
                  THEN IdleThread
                  ELSE [IdleThread EXCEPT !.pc = "SetCpStatus"]
    /\ UNCHANGED <<m_CPCtrlReg, interruptSet, interruptWaiting, gpuRunning,
                   deterministicGPUSync, events, gpuThread>>
    /\ CPFrame

\* GatherPipeBursted() after its SyncGPU(): the stores of the new write
\* pointer (deterministic sync is on, no SetCpStatus follows).
CpuStoreWritePointer ==
    /\ cpuThread.pc = "AtomicStore"
    /\ cpuFifo' = [cpuFifo EXCEPT !.CPWritePointer = NextPointer(cpuFifo, @)]
    /\ gpuFifoCopy' = [gpuFifoCopy EXCEPT !.CPWritePointer =
                          NextPointer(cpuFifo, cpuFifo.CPWritePointer)]
    /\ cpuThread' = Return(cpuThread)
    /\ UNCHANGED <<m_CPCtrlReg, interruptSet, interruptWaiting, gpuRunning,
                   deterministicGPUSync, events, gpuThread>>
    /\ CPFrame

\* The GPU loop starts.
GpuStart ==
    /\ gpuThread.pc = "stopped"
    /\ gpuRunning' = TRUE
    /\ gpuThread' = [gpuThread EXCEPT !.pc = "loop"]
    /\ UNCHANGED <<cpuFifo, gpuFifoCopy, m_CPCtrlReg, interruptSet,
                   interruptWaiting, deterministicGPUSync, events, cpuThread>>
    /\ CPFrame

\* The GPU loop consumes one burst of the FIFO while it has work: the
\* read pointer of gpuFifo moves on, and the status is recomputed unless
\* deterministic sync is on (interruptWaiting never becomes true then).
GpuConsume ==
    /\ gpuThread.pc = "loop"
    /\ GPUHasWork
    /\ IF deterministicGPUSync
       THEN /\ gpuFifoCopy' = [gpuFifoCopy EXCEPT
                                 !.CPReadPointer = NextPointer(gpuFifoCopy, @),
                                 !.SafeCPReadPointer =
                                     NextPointer(gpuFifoCopy, gpuFifoCopy.CPReadPointer)]
            /\ UNCHANGED <<cpuFifo, gpuThread>>
       ELSE /\ cpuFifo' = [cpuFifo EXCEPT
                             !.CPReadPointer = NextPointer(cpuFifo, @),
                             !.SafeCPReadPointer =
                                 NextPointer(cpuFifo, cpuFifo.CPReadPointer)]
            /\ gpuThread' = [gpuThread EXCEPT !.pc = "SetCpStatus"]
            /\ UNCHANGED gpuFifoCopy
    /\ UNCHANGED <<m_CPCtrlReg, interruptSet, interruptWaiting, gpuRunning,
                   deterministicGPUSync, events, cpuThread>>
    /\ CPFrame

\* SetCpStatus(false) up to the test 'interrupt != interruptSet &&
\* !interruptWaiting'.
GpuSetCpStatus ==
    /\ gpuThread.pc = "SetCpStatus"
    /\ cpuFifo' = StatusFlags
    /\ gpuThread' =
          IF InterruptOf(StatusFlags) # interruptSet /\ ~interruptWaiting
          THEN [pc |-> "interruptWaiting = true",
                userdata |-> InterruptOf(StatusFlags)]
          ELSE [gpuThread EXCEPT !.pc = "loop"]
    /\ UNCHANGED <<gpuFifoCopy, m_CPCtrlReg, interruptSet, interruptWaiting,
                   gpuRunning, deterministicGPUSync, events, cpuThread>>
    /\ CPFrame

\* SetCpStatus(false), GPU thread: interruptWaiting = true.
GpuSetWaiting ==
    /\ gpuThread.pc = "interruptWaiting = true"
    /\ interruptWaiting' = TRUE
    /\ gpuThread' = [gpuThread EXCEPT !.pc = "UpdateInterruptsFromVideoBackend"]
    /\ UNCHANGED <<cpuFifo, gpuFifoCopy, m_CPCtrlReg, interruptSet,
                   gpuRunning, deterministicGPUSync, events, cpuThread>>
    /\ CPFrame

\* UpdateInterruptsFromVideoBackend(userdata):
\* CoreTiming::ScheduleEvent_Threadsafe(0, et_UpdateInterrupts, userdata).
GpuScheduleEvent ==
    /\ gpuThread.pc = "UpdateInterruptsFromVideoBackend"
    /\ Len(events) < MaxEvents
    /\ events' = Append(events, gpuThread.userdata)
    /\ gpuThread' = [gpuThread EXCEPT !.pc = "loop"]
    /\ UNCHANGED <<cpuFifo, gpuFifoCopy, m_CPCtrlReg, interruptSet,
                   interruptWaiting, gpuRunning, deterministicGPUSync,
                   cpuThread>>
    /\ CPFrame

CpuNext ==
    \/ CpuSetCpControlRegister
    \/ CpuSyncGPU
    \/ CpuSetCpStatus
    \/ CpuUpdateInterrupts
    \/ CpuClearWaiting
    \/ CpuRunEvent
    \/ CpuGatherPipeBursted
    \/ CpuStoreWritePointer

GpuNext ==
    \/ GpuStart
    \/ GpuConsume
    \/ GpuSetCpStatus
    \/ GpuSetWaiting
    \/ GpuScheduleEvent

NextCP == CpuNext \/ GpuNext

SpecCP == InitCP /\ [][NextCP]_vars

\* The scheduler lets the GPU thread run, and the CPU thread in SyncGPU().
SpecCPFair == SpecCP /\ WF_vars(GpuNext) /\ WF_vars(CpuSyncGPU)




(***************************************************************************)
(* Properties.                                                             *)
(***************************************************************************)
\* Block b has a byte in [address, address + length).
Overlaps(b, address, length) ==
    BlockStart(b) < address + length /\ BlockEnd(b) >= address

\* Block n was finalized (and the cache not cleared since).
Finalized(c, n) == n \in 0 .. (c.num_blocks - 1) /\ c.blockCodePointers[n] # NullPtr

\* The granules around the modelled blocks.
Granules == 510 .. 515

\* C1: after InvalidateICache(address, length, forced) returns, no
\* finalized, non-invalid block has a guest range that overlaps
\* [address, address + length), whatever the blocks, address and length.
C1_NoLiveOverlapAfterInvalidate ==
    Pending(Cache) = {} =>
        \A address \in InvAddrs, length \in InvLengths, forced \in BOOLEAN :
            \A c \in {InvalidateICache(Quiet, address, length, forced)} :
                \A n \in BlockIds :
                    Live(c, n) => ~Overlaps(c.blocks[n], address, length)

\* C2: once a finalized block with start address s has been destroyed, the
\* lookup at s reports "not found" until another block is finalized at s
\* (a later block: one with a higher number).
C2_DestroyedBlockNotFound ==
    \A n \in BlockIds :
        ( /\ Finalized(Cache, n)
          /\ blocks[n].invalid
          /\ ~\E m \in BlockIds :
                 /\ m > n
                 /\ Finalized(Cache, m)
                 /\ blocks[m].originalAddress = blocks[n].originalAddress )
        => GetBlockNumberFromStartAddress(Cache, blocks[n].originalAddress) = NoBlock

\* C3: the dispatcher never transfers control into the native code of a
\* destroyed block (a dispatch at its start address takes the compile path
\* until a new block is finalized there), and the checked entry point of a
\* destroyed block redirects to the dispatcher.
C3_NoControlIntoDestroyedBlock ==
    /\ entered.kind = "block" => ~blocks[entered.block].invalid
    /\ \A n \in BlockIds :
          (Finalized(Cache, n) /\ blocks[n].invalid) =>
              blocks[n].checkedEntry = "redirect"

\* C4: immediately after FinalizeBlock of block b, allocated at start
\* address s, the lookup at s returns b.
C4_FinalizedBlockIsFound ==
    [][\A b \in BlockIds :
          (b \in Pending(Cache) /\ b \notin Pending(Cache)') =>
              GetBlockNumberFromStartAddress(Cache, blocks[b].originalAddress)' = b]_vars

\* C4 witness: a block was finalized on an index page of its own and is
\* found, after an earlier block had been destroyed.
C4_Witness ==
    \E b \in BlockIds :
        /\ Live(Cache, b)
        /\ GetBlockNumberFromStartAddress(Cache, blocks[b].originalAddress) = b
        /\ DOMAIN m_phys_addrs[PageOf(blocks[b].originalAddress)] =
               {SlotOf(blocks[b].originalAddress)}
        /\ \E d \in BlockIds : d < b /\ Finalized(Cache, d) /\ blocks[d].invalid

\* C5: whenever the valid-block bit of a granule is clear, no finalized,
\* non-invalid block covers a byte of that granule.
C5_ClearBitMeansNoLiveBlock ==
    \A g \in Granules :
        g \notin valid_block =>
            \A n \in BlockIds : Live(Cache, n) => ~Overlaps(blocks[n], 32 * g, 32)

\* C6: a second InvalidateICache with the same arguments, right after the
\* first, destroys no block, raises no alert and leaves the invalid flags,
\* block_map, links_to, the address index and the granule bits as the
\* first call left them.
C6_SecondInvalidateIsNoOp ==
    Pending(Cache) = {} =>
        \A address \in InvAddrs, length \in InvLengths, forced \in BOOLEAN :
            \A c1 \in {InvalidateICache(Quiet, address, length, forced)} :
                \A c2 \in {InvalidateICache([c1 EXCEPT !.alerts = {}],
                                             address, length, forced)} :
                    /\ c2.alerts = {}
                    /\ c2.blocks = c1.blocks
                    /\ c2.block_map = c1.block_map
                    /\ c2.links_to = c1.links_to
                    /\ c2.m_phys_addrs = c1.m_phys_addrs
                    /\ c2.valid_block = c1.valid_block

\* C6 witness: a state in which the first of the two calls destroys a block
\* through the scan and another one through the length == 32 path.
C6_Witness ==
    /\ Pending(Cache) = {}
    /\ \E address \in InvAddrs, n \in BlockIds :
          /\ Live(Cache, n)
          /\ InvalidateICache(Quiet, address, 64, FALSE).blocks[n].invalid
    /\ \E address \in InvAddrs, n \in BlockIds :
          /\ Live(Cache, n)
          /\ InvalidateICache(Quiet, address, 32, FALSE).blocks[n].invalid

\* C7: an exit of a (still valid) block A that a linking FinalizeBlock left
\* unlinked, and that is unlinked now, is linked and patched to B's checked
\* entry by FinalizeBlock(B, block_link = true) of a block B that starts at
\* the exit's target address.
C7_UnlinkedExitLinkedByTarget ==
    \A B \in Pending(Cache) :
        \A gen \in CodeGen(blocks[B].originalAddress) :
            \A c \in {FinalizeBlock(Populate(Quiet, B, gen), B, TRUE, B)} :
                \A e \in leftUnlinked :
                    ( /\ Live(Cache, e[1])
                      /\ blocks[e[1]].linkData[e[2]].exitAddress = blocks[B].originalAddress
                      /\ ~blocks[e[1]].linkData[e[2]].linkStatus )
                    => /\ c.blocks[e[1]].linkData[e[2]].linkStatus
                       /\ c.blocks[e[1]].linkData[e[2]].exitPtrs = B

\* C8: when block B is destroyed, every exit of another block that targets
\* B's start address and was linked is unlinked afterwards, and the reverse
\* link map has no entry left under B's start address.
C8_DestroyUnlinksEveryExit ==
    [][\A B \in BlockIds :
          (Live(Cache, B) /\ num_blocks' = num_blocks /\ blocks'[B].invalid) =>
              /\ \A A \in (0 .. (num_blocks - 1)) \ {B} :
                    \A k \in DOMAIN blocks[A].linkData :
                        ( /\ blocks[A].linkData[k].exitAddress = blocks[B].originalAddress
                          /\ blocks[A].linkData[k].linkStatus )
                        => ~blocks'[A].linkData[k].linkStatus
              /\ LinkSources(Cache, blocks[B].originalAddress)' = {}]_vars

\* C9: driven by the dispatcher, at most one finalized, non-invalid block
\* has a given guest start address.
C9_UniqueStartAddress ==
    \A n, m \in BlockIds :
        ( /\ Live(Cache, n)
          /\ Live(Cache, m)
          /\ blocks[n].originalAddress = blocks[m].originalAddress )
        => n = m

\* C9 witness: the dispatcher has had three blocks compiled, each at an
\* address where the lookup had reported none; an invalidation has destroyed
\* one of them and the other two are live.
C9_Witness ==
    /\ num_blocks = 3
    /\ \E n, m, d \in 0 .. 2 :
          /\ n # m
          /\ Live(Cache, n)
          /\ Live(Cache, m)
          /\ Finalized(Cache, d)
          /\ blocks[d].invalid

\* C10: DestroyBlock on an already-invalid block, or on a block number
\* outside [0, num_blocks), changes nothing but the alerts: "Invalidating
\* invalid block" exactly when invalidate is true for an invalid block,
\* the invalid-number alert for a number out of range.
C10_DestroyInvalidChangesNothing ==
    \A block_num \in (0 - 1) .. MAX_NUM_BLOCKS, invalidate \in BOOLEAN :
        \A c \in {DestroyBlock(Quiet, block_num, invalidate)} :
            IF block_num < 0 \/ block_num >= num_blocks
            THEN /\ [c EXCEPT !.alerts = {}] = Quiet
                 /\ c.alerts = {"DestroyBlock: Invalid block number"}
            ELSE blocks[block_num].invalid =>
                    /\ [c EXCEPT !.alerts = {}] = Quiet
                    /\ c.alerts = IF invalidate
                                  THEN {"Invalidating invalid block"}
                                  ELSE {}

\* C10 witness: an invalid block that still has a linked exit aimed at its
\* start address and a block number past the allocated ones.
C10_Witness ==
    /\ num_blocks < MAX_NUM_BLOCKS
    /\ \E n \in 0 .. (num_blocks - 1) :
          /\ blocks[n].invalid
          /\ \E A \in 0 .. (num_blocks - 1) :
                \E k \in DOMAIN blocks[A].linkData :
                    /\ blocks[A].linkData[k].exitAddress = blocks[n].originalAddress
                    /\ blocks[A].linkData[k].linkStatus

\* C11: IsFull() is true exactly when num_blocks >= MAX_NUM_BLOCKS - 1; with
\* every allocation preceded by the IsFull() check that clears a full cache,
\* num_blocks never exceeds MAX_NUM_BLOCKS - 1 and AllocateBlock hands out
\* the num_blocks it found, a number inside the block array.
C11_CapacityCheckedAllocation ==
    /\ IsFull(Cache) <=> (num_blocks >= MAX_NUM_BLOCKS - 1)
    /\ num_blocks <= MAX_NUM_BLOCKS - 1
    /\ Pending(Cache) = {} =>
          \A em_address \in StartAddrs :
              \A c \in {Jit(Quiet, em_address)} :
                  /\ c.num_blocks <= MAX_NUM_BLOCKS - 1
                  /\ c.num_blocks - 1 = IF IsFull(Cache) THEN 0 ELSE num_blocks
                  /\ Pending(c) = {c.num_blocks - 1}
                  /\ c.num_blocks - 1 \in DOMAIN c.blocks
                  /\ c.blocks[c.num_blocks - 1].originalAddress = em_address

\* C11 witness: the cache is full, with live and destroyed blocks in it, at
\* the moment the compiler asks for the next block.
C11_Witness ==
    /\ Pending(Cache) = {}
    /\ IsFull(Cache)
    /\ num_blocks = MAX_NUM_BLOCKS - 1
    /\ \E n, d \in BlockIds : Live(Cache, n) /\ Finalized(Cache, d) /\ blocks[d].invalid

\* C12: after Clear() from any reachable state num_blocks is 0, the lookup
\* reports "not found" at every address, block_map and links_to are empty,
\* every granule bit is clear, the FIFO-write hint set is empty, and every
\* block that was finalized and not invalid is now invalid, with no
\* "Invalidating invalid block" alert raised.
C12_ClearEmptiesTheCache ==
    Pending(Cache) = {} =>
        \A c \in {Clear(Quiet)} :
            /\ c.num_blocks = 0
            /\ \A addr \in LookupAddrs :
                  GetBlockNumberFromStartAddress(c, addr) = NoBlock
            /\ c.block_map = <<>>
            /\ c.links_to = EmptyBag
            /\ c.valid_block = {}
            /\ c.fifoWriteAddresses = {}
            /\ \A n \in BlockIds : Live(Cache, n) => c.blocks[n].invalid
            /\ c.alerts = {}

\* C12 witness: a cache about to be cleared that holds a FIFO-write hint, a
\* live block with a linked exit, a destroyed block and set granule bits.
C12_Witness ==
    /\ Pending(Cache) = {}
    /\ fifoWriteAddresses # {}
    /\ valid_block # {}
    /\ links_to # EmptyBag
    /\ \E n, d \in BlockIds :
          /\ Live(Cache, n)
          /\ \E k \in DOMAIN blocks[n].linkData : blocks[n].linkData[k].linkStatus
          /\ Finalized(Cache, d)
          /\ blocks[d].invalid


(***************************************************************************)
(* Block address translation and the tables.                               *)
(***************************************************************************)
\* The pairs of a kind that are in force: the first four, the other four
\* with extended BATs, each with PP # 0.
EnabledPairs(bats) ==
    {i \in 0 .. 7 : (i < 4 \/ extended_bats) /\ bats[i].PP # 0}

\* The followed granules of [base, base + size) of a pair.
PairGranules(bat) ==
    {x \in BatIndices : x >= bat.BEPI /\ x < bat.BEPI + bat.BL + 1}

\* The granule lies in a window UpdateFakeMMUDBat fills (data side only).
FakeWindow(x) ==
    bFakeVMEM /\ (x \in 8192 .. 10239 \/ x \in 14336 .. 16383)

\* The registers of the table an access kind uses.
KindBats(flag) ==
    IF flag = "FLAG_OPCODE" THEN ppcState.ibat ELSE ppcState.dbat

\* First and last page of a granule, first and last byte of the page.
SampleAddrs(x) ==
    {Addr(x * BAT_PAGES + p, o) : p \in {0, BAT_PAGES - 1}, o \in {0, HW_PAGE_SIZE - 1}}

\* The access kinds that translate.
TranslatingFlags == XCheckTLBFlag \ {"FLAG_NO_TRANSLATE"}

\* C13: for every enabled BAT pair of the kind's registers, every address
\* of its range that no later pair and no fake-VMEM window overrides
\* translates as valid, from_bat, to physBase + (a - base).
C13_BatPairTranslates ==
    \A flag \in TranslatingFlags :
        \A i \in EnabledPairs(KindBats(flag)) :
            \A x \in PairGranules(KindBats(flag)[i]) :
                (/\ \A j \in EnabledPairs(KindBats(flag)) :
                        j > i => x \notin PairGranules(KindBats(flag)[j])
                 /\ (flag = "FLAG_OPCODE" \/ ~FakeWindow(x)))
                => \A a \in SampleAddrs(x) :
                      \A r \in {TranslateAddress(Mmu, flag, a)} :
                          /\ r.valid
                          /\ r.from_bat
                          /\ r.address =
                                Addr((KindBats(flag)[i].BRPN * BAT_PAGES
                                        + (a.page - KindBats(flag)[i].BEPI * BAT_PAGES))
                                       % PAGE_COUNT, a.off)

\* The table an access kind uses.
KindTable(flag) ==
    IF flag = "FLAG_OPCODE" THEN ibat_table ELSE dbat_table

\* C14: once the tables are computed, a granule that no enabled pair of the
\* kind's registers covers (and, for data, no fake-VMEM window) has its
\* valid bit clear, and its addresses translate as TranslatePageAddress
\* does, with from_bat false.
C14_UncoveredGranuleFallsThrough ==
    \A flag \in TranslatingFlags :
        \A x \in BatIndices :
            (/\ \A i \in EnabledPairs(KindBats(flag)) :
                    x \notin PairGranules(KindBats(flag)[i])
             /\ (flag = "FLAG_OPCODE" \/ ~FakeWindow(x)))
            => /\ KindTable(flag)[x].off % 2 = 0
               /\ \A a \in SampleAddrs(x) :
                     /\ ~TranslateAddress(Mmu, flag, a).from_bat
                     /\ TranslateAddress(Mmu, flag, a)
                            = TranslatePageAddress(Mmu, a, flag)

(***************************************************************************)
(* The page table walk and the TLB.                                        *)
(***************************************************************************)
\* The pages of the guest's page table and accesses, and addresses in them.
GuestPages == {16, 17, 18, 19, 20, 21, 80, 144}
GuestAddrs == {Addr(p, 126) : p \in GuestPages}

\* The MMU with the page table as the guest built it and nothing cached.
ColdMmu ==
    [Mmu EXCEPT !.ppcState.tlb = ResetPpcState.tlb,
                !.physical_base.pte = GuestPageTable]

\* The way of the TLB set of a kind that caches the page, or -1.
CachedWay(m, flag, page) ==
    IF m.ppcState.tlb[TlbKey(flag, page)].tag[0] = page THEN 0
    ELSE IF m.ppcState.tlb[TlbKey(flag, page)].tag[1] = page THEN 1
    ELSE -1

\* C15: with the page table, the segment registers and SDR1 fixed, a
\* translation of an address with an access kind returns the same valid and
\* address in every state: those of the walk, those of the first
\* translation; a TLB hit returns (RPN << 12) | offset of the entry the walk
\* finds.
C15_TranslationIsStable ==
    \A flag \in TranslatingFlags, a \in GuestAddrs :
        \A now \in {TranslateAddress(Mmu, flag, a)},
           walked \in {WalkPageTable(Mmu, "TLB_NOTFOUND", a, flag)},
           first \in {TranslateAddress(ColdMmu, flag, a)} :
            /\ now.valid = walked.valid /\ now.address = walked.address
            /\ now.valid = first.valid /\ now.address = first.address
            /\ (now.valid /\ ~now.walk)
                  => /\ MatchingSlot(Mmu, a) # NoSlot
                     /\ now.address =
                           Addr(PteAt(Mmu, MatchingSlot(Mmu, a)).pte2.RPN, a.off)

\* A state in which one page is answered by the TLB and another, valid too,
\* by the walk.
C15_Witness ==
    /\ CachedWay(Mmu, "FLAG_READ", 16) # -1
    /\ TranslateAddress(Mmu, "FLAG_READ", Addr(16, 126)).valid
    /\ ~TranslateAddress(Mmu, "FLAG_READ", Addr(16, 126)).walk
    /\ TranslateAddress(Mmu, "FLAG_READ", Addr(17, 126)).valid
    /\ TranslateAddress(Mmu, "FLAG_READ", Addr(17, 126)).walk

\* The access kinds of the guest's own accesses.
GuestFlags == {"FLAG_READ", "FLAG_WRITE", "FLAG_OPCODE"}

\* After a successful translation of a's page through the page address
\* path, the next two translations of the page with the same kind hit the
\* TLB, read no page table memory and leave memory as it is.
RepeatsFromTLB(flag, a) ==
    \A r1 \in {TranslateAddress(Mmu, flag, a)} :
        (r1.valid /\ ~r1.from_bat)
        => \A r2 \in {TranslateAddress(r1.m, flag, Addr(a.page, 0))} :
              /\ r2.valid
              /\ ~r2.walk
              /\ r2.address = Addr(r1.address.page, 0)
              /\ r2.m.physical_base = r1.m.physical_base
              /\ \A r3 \in {TranslateAddress(r2.m, flag, a)} :
                    r3.valid /\ ~r3.walk /\ r3.address = r1.address

\* C16 (amended): with the configuration fixed, after the first successful
\* translation of a page with the read, write or opcode kind, the later
\* translations of the page with that kind are answered by the TLB and
\* read no page table memory.
C16_GuestKindsRepeatFromTLB ==
    \A flag \in GuestFlags, a \in GuestAddrs : RepeatsFromTLB(flag, a)

\* C16 as stated, for every access kind: the no-exception probe is one.
C16_EveryKindRepeatsFromTLB ==
    \A flag \in TranslatingFlags, a \in GuestAddrs : RepeatsFromTLB(flag, a)

\* A read has cached page 0x10 with C = 0: the first write translation
\* walks the table, the second is answered by the TLB.
C16_Witness ==
    /\ CachedWay(Mmu, "FLAG_WRITE", 16) # -1
    /\ ppcState.tlb[TlbKey("FLAG_WRITE", 16)].pte[CachedWay(Mmu, "FLAG_WRITE", 16)].C = 0
    /\ \E r1 \in {TranslateAddress(Mmu, "FLAG_WRITE", Addr(16, 126))} :
          /\ r1.valid
          /\ r1.walk
          /\ ~TranslateAddress(r1.m, "FLAG_WRITE", Addr(16, 126)).walk

\* C17: after a successful write translation of a page whose PTE in memory
\* has C = 0, the page being absent from the data TLB or cached there with
\* C = 0, C is 1 in the TLB's cached PTE word of the page and in the second
\* PTE word in memory.
C17_WriteSetsChangeBit ==
    \A a \in GuestAddrs :
        (/\ MatchingSlot(Mmu, a) # NoSlot
         /\ PteAt(Mmu, MatchingSlot(Mmu, a)).pte2.C = 0
         /\ \/ CachedWay(Mmu, "FLAG_WRITE", a.page) = -1
            \/ ppcState.tlb[TlbKey("FLAG_WRITE", a.page)]
                   .pte[CachedWay(Mmu, "FLAG_WRITE", a.page)].C = 0)
        => \A r \in {TranslateAddress(Mmu, "FLAG_WRITE", a)} :
              /\ r.valid
              /\ PteAt(r.m, MatchingSlot(r.m, a)).pte2.C = 1
              /\ CachedWay(r.m, "FLAG_WRITE", a.page) # -1
              /\ r.m.ppcState.tlb[TlbKey("FLAG_WRITE", a.page)]
                     .pte[CachedWay(r.m, "FLAG_WRITE", a.page)].C = 1

\* The guest's write has run on page 0x10, cached by an earlier read with
\* C = 0: the change bit is now set in the TLB and in memory, while page
\* 0x50 is still unwritten.
C17_Witness ==
    /\ CachedWay(Mmu, "FLAG_WRITE", 16) # -1
    /\ ppcState.tlb[TlbKey("FLAG_WRITE", 16)].pte[CachedWay(Mmu, "FLAG_WRITE", 16)].C = 1
    /\ ppcState.tlb[TlbKey("FLAG_WRITE", 16)].pte[CachedWay(Mmu, "FLAG_WRITE", 16)].R = 1
    /\ physical_base.pte[66880].pte2.C = 1
    /\ CachedWay(Mmu, "FLAG_WRITE", 80) # -1
    /\ physical_base.pte[70976].pte2.C = 0

\* The address of a PTE group of an effective address: the primary one at
\* the hash VSID xor page index, the secondary one at its complement, both
\* under the hash mask, 64 bytes a group from the table's base.
GroupOf(a, secondary) ==
    LET h == BitXor(SR_VSID(ppcState.sr[a.page \div 65536]), a.page % 65536)
                 % (ppcState.pagetable_hashmask + 1)
    IN  ppcState.pagetable_base
            + 64 * (IF secondary THEN ppcState.pagetable_hashmask - h ELSE h)

\* The slots of a group that hold a valid entry with the address's VSID and
\* API and the hash-function bit h.
MatchingIn(group, a, h) ==
    {n \in 0 .. 7 :
        /\ PteAt(Mmu, group + 8 * n).pte1.V = 1
        /\ PteAt(Mmu, group + 8 * n).pte1.VSID
               = SR_VSID(ppcState.sr[a.page \div 65536])
        /\ PteAt(Mmu, group + 8 * n).pte1.API = (a.page \div 1024) % 64
        /\ PteAt(Mmu, group + 8 * n).pte1.H = h}

\* C18: with no matching entry in the primary group, a secondary-group
\* entry with the H bit set makes the translation succeed with
\* (RPN << 12) | offset; entries whose H bit does not fit their group do not
\* count; with no matching entry in the 16 slots the result is invalid.
C18_SecondaryHashAndMiss ==
    \A flag \in TranslatingFlags, a \in GuestAddrs :
        \A r \in {TranslateAddress(Mmu, flag, a)} :
            LET prim == MatchingIn(GroupOf(a, FALSE), a, 0)
                sec == MatchingIn(GroupOf(a, TRUE), a, 1)
                first == CHOOSE n \in sec : \A k \in sec : n <= k
            IN  /\ (prim = {} /\ sec # {})
                      => /\ r.valid
                         /\ ~r.from_bat
                         /\ r.address =
                               Addr(PteAt(Mmu, GroupOf(a, TRUE) + 8 * first).pte2.RPN,
                                    a.off)
                /\ (prim = {} /\ sec = {}) => ~r.valid

\* Page 0x11 has been translated through its secondary group and is cached;
\* page 0x14, with an entry in its secondary group whose H bit is clear,
\* and page 0x15, with an entry in its primary group whose H bit is set,
\* do not translate.
C18_Witness ==
    /\ MatchingIn(GroupOf(Addr(17, 0), FALSE), Addr(17, 0), 0) = {}
    /\ MatchingIn(GroupOf(Addr(17, 0), TRUE), Addr(17, 0), 1) = {3}
    /\ CachedWay(Mmu, "FLAG_READ", 17) # -1
    /\ physical_base.pte[129752].pte2.R = 1
    /\ MatchingIn(GroupOf(Addr(20, 0), TRUE), Addr(20, 0), 0) # {}
    /\ ~TranslateAddress(Mmu, "FLAG_READ", Addr(20, 126)).valid
    /\ MatchingIn(GroupOf(Addr(21, 0), FALSE), Addr(21, 0), 1) # {}
    /\ ~TranslateAddress(Mmu, "FLAG_READ", Addr(21, 126)).valid

\* The reads of width 2, 4 or 8 whose bytes straddle a page boundary.
StraddlingReads ==
    {acc \in ReadAccesses :
        acc[1] \in {2, 4, 8} /\ acc[2].off > HW_PAGE_SIZE - acc[1]}

\* The page after the one of an address.
PageAfter(a) == Addr((a.page + 1) % PAGE_COUNT, 0)

\* The bytes of a straddling access, most significant first: those of the
\* first page's physical location, then those at the start of next.
BytesAcross(size, a, first, next) ==
    [k \in 1 .. size |->
        IF a.off + k - 1 < HW_PAGE_SIZE
        THEN ByteOf(physical_base.bytes, Addr(first.page, a.off + k - 1))
        ELSE ByteOf(physical_base.bytes,
                    Addr(next.page, a.off + k - 1 - HW_PAGE_SIZE))]

\* C19: with data translation on, a read of width 2, 4 or 8 that straddles
\* a page boundary, both pages translating, returns the bytes of the first
\* page's physical location followed by those at the start of the second
\* page's physical location, most significant first.
C19_StraddlingReadAssembles ==
    \A acc \in StraddlingReads :
        \A one \in {TranslateAddress(QuietMmu, "FLAG_READ", acc[2])},
           two \in {TranslateAddress(QuietMmu, "FLAG_READ", PageAfter(acc[2]))},
           r \in {ReadFromHardware(QuietMmu, "FLAG_READ", acc[1], acc[2])} :
            (~stuck /\ ppcState.msr.DR = 1 /\ one.valid /\ two.valid)
                => /\ ~r.m.stuck
                   /\ r.value = Value(BytesAcross(acc[1], acc[2],
                                                  one.address, two.address))

\* The fake-VMEM backing region, [0x7E000000, 0x80000000), where the build
\* has it.
InFakeVMEM(p) == bFakeVMEM /\ p.page \div 8192 = 63

\* A physical address of no configured region.
Unconfigured(p) ==
    /\ ~InDeviceWindow(p)
    /\ Region(p) = "none"
    /\ ~InFakeVMEM(p)

\* The translation an access of the guest starts with: that of the address
\* with data translation on, the address itself with it off.
Translated(flag, a) ==
    IF ppcState.msr.DR = 1
    THEN TranslateAddress(QuietMmu, flag, a)
    ELSE [m |-> QuietMmu, valid |-> TRUE, from_bat |-> FALSE, address |-> a]

\* No guest exception is latched from the state on to m.
NoExceptionLatched(m) ==
    /\ m.ppcState.Exceptions = ppcState.Exceptions
    /\ m.ppcState.DAR = ppcState.DAR
    /\ m.ppcState.DSISR = ppcState.DSISR

\* A read of an address of no configured region returns 0, changes no
\* memory behind the translation and latches no exception.
UnresolvedReadIsZero ==
    \A acc \in ReadAccesses \ StraddlingReads :
        \A t \in {Translated("FLAG_READ", acc[2])},
           r \in {ReadFromHardware(QuietMmu, "FLAG_READ", acc[1], acc[2])} :
            (~stuck /\ t.valid /\ Unconfigured(t.address))
                => /\ r.value = ZeroValue(acc[1])
                   /\ r.m.physical_base = t.m.physical_base
                   /\ NoExceptionLatched(r.m)

\* A write to an address of no configured region changes no memory behind
\* the translation and latches no exception.
UnresolvedWriteIsDropped ==
    \A acc \in {x \in WriteAccesses : x[2].off <= HW_PAGE_SIZE - x[1]} :
        \A t \in {Translated("FLAG_WRITE", acc[2])},
           w \in {WriteToHardware(QuietMmu, "FLAG_WRITE", acc[2], WriteData(acc[1]))} :
            (~stuck /\ t.valid /\ Unconfigured(t.address))
                => /\ w.physical_base = t.m.physical_base
                   /\ NoExceptionLatched(w)

\* C20: a read whose physical address is in no configured region returns
\* 0, leaves the memory regions unchanged and latches no guest exception
\* (Exceptions, DAR, DSISR); the matching write is dropped the same way.
C20_UnresolvedAccessIsInert ==
    UnresolvedReadIsZero /\ UnresolvedWriteIsDropped

\* The accesses of the guest that a claim about faults looks at: those the
\* guest makes, a byte read inside page 0x12, which has no entry, and a
\* write of two bytes from the last byte of page 0x11 on, into page 0x12.
FaultReads == ReadAccesses \cup {<<1, Addr(18, 126)>>}
FaultWrites == WriteAccesses \cup {<<2, Addr(17, 4095)>>}

\* Where an access of the guest faults, if it does: at its address when the
\* first page does not translate, at the next page when the access crosses
\* into it (crossing as the read, or as the write, decides it) and only
\* that page does not translate.
FaultOf(flag, acc, crossing) ==
    The({ IF ~one.valid
          THEN <<acc[2]>>
          ELSE IF crossing /\ ~TranslateAddress(one.m, flag, PageAfter(acc[2])).valid
          THEN <<PageAfter(acc[2])>>
          ELSE <<>>
        : one \in {TranslateAddress(QuietMmu, flag, acc[2])} })

ReadCrosses(acc) == acc[2].off > HW_PAGE_SIZE - acc[1]
WriteCrosses(acc) == acc[2].off % acc[1] # 0 /\ acc[2].off > HW_PAGE_SIZE - acc[1]

\* The data bytes of the guest are those of the state.
DataUntouched(m) ==
    /\ m.physical_base.bytes = physical_base.bytes
    /\ m.physical_base.fake = physical_base.fake

\* A faulting read returns 0, a faulting write stores nothing, and both
\* latch EXCEPTION_DSI with the faulting address in DAR.
FaultRaisesDSI ==
    /\ \A acc \in FaultReads :
          \A at \in {FaultOf("FLAG_READ", acc, ReadCrosses(acc))},
             r \in {ReadFromHardware(QuietMmu, "FLAG_READ", acc[1], acc[2])} :
              (~stuck /\ ppcState.msr.DR = 1 /\ at # <<>>)
                  => /\ r.value = ZeroValue(acc[1])
                     /\ DataUntouched(r.m)
                     /\ "EXCEPTION_DSI" \in r.m.ppcState.Exceptions
                     /\ r.m.ppcState.DAR = at[1]
    /\ \A acc \in FaultWrites :
          \A at \in {FaultOf("FLAG_WRITE", acc, WriteCrosses(acc))},
             w \in {WriteToHardware(QuietMmu, "FLAG_WRITE", acc[2], WriteData(acc[1]))} :
              (~stuck /\ ppcState.msr.DR = 1 /\ at # <<>>)
                  => /\ DataUntouched(w)
                     /\ "EXCEPTION_DSI" \in w.ppcState.Exceptions
                     /\ w.ppcState.DAR = at[1]

\* Without the MMU emulated a faulting access returns 0 or stores nothing,
\* raises an alert and latches nothing.
FaultAlertsOnly ==
    /\ \A acc \in FaultReads :
          \A at \in {FaultOf("FLAG_READ", acc, ReadCrosses(acc))},
             r \in {ReadFromHardware(QuietMmu, "FLAG_READ", acc[1], acc[2])} :
              (~stuck /\ ppcState.msr.DR = 1 /\ at # <<>>)
                  => /\ r.value = ZeroValue(acc[1])
                     /\ DataUntouched(r.m)
                     /\ NoExceptionLatched(r.m)
                     /\ "Invalid Read from" \in r.m.alerts
    /\ \A acc \in FaultWrites :
          \A at \in {FaultOf("FLAG_WRITE", acc, WriteCrosses(acc))},
             w \in {WriteToHardware(QuietMmu, "FLAG_WRITE", acc[2], WriteData(acc[1]))} :
              (~stuck /\ ppcState.msr.DR = 1 /\ at # <<>>)
                  => /\ DataUntouched(w)
                     /\ NoExceptionLatched(w)
                     /\ "Invalid Write to" \in w.alerts

\* C21 (as stated): with data translation on, a guest read (write) whose
\* address fails translation returns 0 (stores nothing) and latches
\* EXCEPTION_DSI with DAR the faulting effective address, the next page's
\* when only the second page of a page-crossing access fails.
C21_FaultRaisesDSI == FaultRaisesDSI

\* C21 (amended): the same where the MMU is emulated (bMMU); where it is
\* not, the access returns 0 or stores nothing, raises an alert and latches
\* no exception.
C21_FaultRaisesDSIUnderMMU ==
    IF bMMU THEN FaultRaisesDSI ELSE FaultAlertsOnly

\* With the MMU emulated, the guest has read page 0x12, which has no entry,
\* and the interrupt is latched with its address; a read across the end of
\* page 0x11 would fault at page 0x12.
C21_Witness ==
    /\ bMMU
    /\ ppcState.msr.DR = 1
    /\ "EXCEPTION_DSI" \in ppcState.Exceptions
    /\ ppcState.DAR = Addr(18, 0)
    /\ FaultOf("FLAG_READ", <<2, Addr(17, 4095)>>, TRUE) = <<Addr(18, 0)>>
    /\ FaultOf("FLAG_WRITE", <<2, Addr(17, 4095)>>, TRUE) = <<Addr(18, 0)>>

\* C22: the data-storage interrupt records the direction of the fault:
\* after a failed write the store bit of DSISR is set, after a failed read
\* it is clear, whatever the faulting address.
C22_DSISRRecordsDirection ==
    /\ \A acc \in FaultReads :
          \A at \in {FaultOf("FLAG_READ", acc, ReadCrosses(acc))},
             r \in {ReadFromHardware(QuietMmu, "FLAG_READ", acc[1], acc[2])} :
              (bMMU /\ ~stuck /\ ppcState.msr.DR = 1 /\ at # <<>>)
                  => "PPC_EXC_DSISR_STORE" \notin r.m.ppcState.DSISR
    /\ \A acc \in FaultWrites :
          \A at \in {FaultOf("FLAG_WRITE", acc, WriteCrosses(acc))},
             w \in {WriteToHardware(QuietMmu, "FLAG_WRITE", acc[2], WriteData(acc[1]))} :
              (bMMU /\ ~stuck /\ ppcState.msr.DR = 1 /\ at # <<>>)
                  => "PPC_EXC_DSISR_STORE" \in w.ppcState.DSISR

\* C23: with instruction translation on and a fetch address that fails
\* translation, TryReadInstruction returns valid = false and changes
\* neither Exceptions nor NPC; Read_Opcode then latches EXCEPTION_ISI, sets
\* NPC to the faulting address and returns 0.
C23_FetchFaultIsSignalledThenRaised ==
    \A address \in FetchAddrs \cup GuestAddrs :
        \A t \in {TranslateAddress(QuietMmu, "FLAG_OPCODE", address)},
           got \in {TryReadInstruction(QuietMmu, address)},
           r \in {Read_Opcode(QuietMmu, address)} :
            (~stuck /\ ppcState.msr.IR = 1 /\ ~t.valid)
                => /\ ~got.valid
                   /\ got.m.ppcState.Exceptions = ppcState.Exceptions
                   /\ got.m.ppcState.NPC = ppcState.NPC
                   /\ r.m.ppcState.Exceptions
                          = ppcState.Exceptions \cup {"EXCEPTION_ISI"}
                   /\ r.m.ppcState.NPC = address
                   /\ r.value = ZeroValue(4)

\* The guest has fetched from page 0x12: the interrupt is latched and NPC
\* is the address, while a fetch from page 0x10 translates.
C23_Witness ==
    /\ ppcState.msr.IR = 1
    /\ "EXCEPTION_ISI" \in ppcState.Exceptions
    /\ ppcState.NPC = Addr(18, 8)
    /\ ~TryReadInstruction(QuietMmu, Addr(18, 8)).valid
    /\ TryReadInstruction(QuietMmu, Addr(16, 0)).valid

\* The arrays of a stream, in the order emitted.
ArraysOf(p) ==
    [k \in 1 .. Len(SelectSeq(p, LAMBDA x : "array" \in DOMAIN x)) |->
        SelectSeq(p, LAMBDA x : "array" \in DOMAIN x)[k].array]

\* The regions the build has, of a list of them.
Present(regions) ==
    SelectSeq(regions, LAMBDA x : /\ (x = "m_pEXRAM" => bWii)
                                  /\ (x = "m_pFakeVMEM" => bFakeVMEM))

\* C24 (as stated): Memory::DoState emits primary RAM, the locked cache,
\* then expansion RAM (on a Wii only), then fake VMEM (where enabled only),
\* and a marker ends the stream.
C24_SaveOrderEXRAMThenFakeVMEM ==
    \A p \in {DoState(QuietMmu, <<>>)} :
        /\ ArraysOf(p) = Present(<<"m_pRAM", "m_pL1Cache", "m_pEXRAM", "m_pFakeVMEM">>)
        /\ "marker" \in DOMAIN p[Len(p)]

\* C24 (amended): Memory::DoState emits primary RAM and the locked cache
\* followed by the marker "Memory RAM", then fake VMEM (where enabled only)
\* followed by the marker "Memory FakeVMEM", then expansion RAM (on a Wii
\* only) followed by the marker "Memory EXRAM"; the three markers are
\* emitted whether or not the region before them is, and each array holds
\* the bytes of its region.
C24_SaveOrderFakeVMEMThenEXRAM ==
    \A p \in {DoState(QuietMmu, <<>>)} :
        /\ ArraysOf(p) = Present(<<"m_pRAM", "m_pL1Cache", "m_pFakeVMEM", "m_pEXRAM">>)
        /\ SelectSeq(p, LAMBDA x : "marker" \in DOMAIN x)
               = <<[marker |-> "Memory RAM"], [marker |-> "Memory FakeVMEM"],
                   [marker |-> "Memory EXRAM"]>>
        /\ p[3] = [marker |-> "Memory RAM"]
        /\ p[Len(p)] = [marker |-> "Memory EXRAM"]
        /\ \A k \in 1 .. Len(p) - 1 :
              p[k + 1] = [marker |-> "Memory FakeVMEM"]
                  => p[k] \in {[marker |-> "Memory RAM"],
                               [array |-> "m_pFakeVMEM",
                                bytes |-> physical_base.fake]}
        /\ \A k \in 1 .. Len(p) :
              "array" \in DOMAIN p[k]
                  => p[k].bytes =
                        CASE p[k].array = "m_pRAM" -> RegionBytes(Mmu, "RAM")
                          [] p[k].array = "m_pL1Cache" -> RegionBytes(Mmu, "L1")
                          [] p[k].array = "m_pEXRAM" -> RegionBytes(Mmu, "EXRAM")
                          [] p[k].array = "m_pFakeVMEM" -> physical_base.fake
        /\ pointerWrap # <<>> => ArraysOf(pointerWrap) = ArraysOf(p)

\* A Wii without the MMU emulated has saved its memory after writing to
\* all four regions: the stream holds the four arrays and three markers.
C24_Witness ==
    /\ bWii /\ bFakeVMEM
    /\ Len(pointerWrap) = 7
    /\ pointerWrap = DoState(Mmu, <<>>)
    /\ \A k \in {1, 2, 4, 6} : pointerWrap[k].bytes # <<>>

\* The accesses of the host a claim about probes looks at: those the host
\* makes, a read across the pages 0x10 and 0x11, one across page 0x11 and
\* page 0x12, which has no entry, and reads of the pages of the guest.
ProbeAccesses ==
    HostAccesses \cup {<<4, Addr(16, 4093)>>, <<2, Addr(17, 4095)>>}
        \cup {<<1, a>> : a \in GuestAddrs}

\* C25: a translation of the no-exception probe kind changes no TLB entry
\* (tag, physical address, cached PTE word, MRU bit), writes nothing to the
\* page table in physical memory and latches no exception, whether it
\* succeeds or fails, and so do HostRead_* and HostWrite_* around it; on
\* failure the probe only reports invalid.
C25_ProbeHasNoSideEffect ==
    /\ \A a \in GuestAddrs :
          \A t \in {TranslateAddress(QuietMmu, "FLAG_NO_EXCEPTION", a)} :
              /\ t.m = QuietMmu
              /\ ~t.valid => t.address = ZeroWord
    /\ \A acc \in ProbeAccesses :
          \A r \in {ReadFromHardware(QuietMmu, "FLAG_NO_EXCEPTION", acc[1], acc[2])},
             w \in {WriteToHardware(QuietMmu, "FLAG_NO_EXCEPTION", acc[2],
                                    WriteData(acc[1]))} :
              /\ r.m.ppcState = ppcState
              /\ r.m.physical_base = physical_base
              /\ w.ppcState = ppcState
              /\ w.physical_base.pte = physical_base.pte

\* The data TLB holds page 0x10, cached by a read with C = 0, in the way
\* that is not the most recently used one of its set; a probe of page 0x10
\* hits it, a probe of page 0x11, not cached, walks and succeeds, and a
\* probe of page 0x12 fails.
C25_Witness ==
    /\ ppcState.msr.DR = 1
    /\ CachedWay(Mmu, "FLAG_READ", 16) # -1
    /\ ppcState.tlb[TlbKey("FLAG_READ", 16)].recent # CachedWay(Mmu, "FLAG_READ", 16)
    /\ ppcState.tlb[TlbKey("FLAG_READ", 16)].pte[CachedWay(Mmu, "FLAG_READ", 16)].C = 0
    /\ CachedWay(Mmu, "FLAG_READ", 17) = -1
    /\ physical_base.pte[129752].pte2.R = 0
    /\ TranslateAddress(QuietMmu, "FLAG_NO_EXCEPTION", Addr(16, 126)).valid
    /\ ~TranslateAddress(QuietMmu, "FLAG_NO_EXCEPTION", Addr(16, 126)).walk
    /\ TranslateAddress(QuietMmu, "FLAG_NO_EXCEPTION", Addr(17, 126)).walk
    /\ TranslateAddress(QuietMmu, "FLAG_NO_EXCEPTION", Addr(17, 126)).valid
    /\ ~TranslateAddress(QuietMmu, "FLAG_NO_EXCEPTION", Addr(18, 126)).valid

\* The address of the PTE that translates an address: the first matching
\* slot of its primary group or, with none there, of its secondary group.
MatchedPTE(a) ==
    LET prim == MatchingIn(GroupOf(a, FALSE), a, 0)
        sec == MatchingIn(GroupOf(a, TRUE), a, 1)
    IN  IF prim # {}
        THEN GroupOf(a, FALSE) + 8 * (CHOOSE n \in prim : \A k \in prim : n <= k)
        ELSE GroupOf(a, TRUE) + 8 * (CHOOSE n \in sec : \A k \in sec : n <= k)

\* C26: a successful walk for a read or an opcode fetch sets the referenced
\* bit of the matched PTE in physical memory and leaves its changed bit; a
\* walk for a write sets both; no other bit of that PTE and no other PTE
\* changes.
C26_WalkSetsAccessBitsOnly ==
    \A flag \in GuestFlags, a \in GuestAddrs :
        \A t \in {TranslateAddress(QuietMmu, flag, a)} :
            (t.valid /\ t.walk)
                => t.m.physical_base.pte =
                      [physical_base.pte EXCEPT
                          ![MatchedPTE(a)].pte2.R = 1,
                          ![MatchedPTE(a)].pte2.C =
                              IF flag = "FLAG_WRITE" THEN 1 ELSE @]

\* The guest has read page 0x11 and written page 0x13: the PTE of page 0x11
\* has R set and C clear, the one of page 0x13 both set, with their other
\* fields as built, and the PTE of page 0x50, not yet used, has neither;
\* a fetch from page 0x50 would walk.
C26_Witness ==
    /\ physical_base.pte[129752].pte2 = [PTE(5, 1, 0, 48).pte2 EXCEPT !.R = 1]
    /\ physical_base.pte[66960].pte2
           = [PTE(5, 0, 0, 20480).pte2 EXCEPT !.R = 1, !.C = 1]
    /\ physical_base.pte[70976] = PTE(5, 0, 0, 34)
    /\ TranslateAddress(QuietMmu, "FLAG_OPCODE", Addr(80, 126)).walk
    /\ MatchedPTE(Addr(80, 126)) = 70976

\* C27: on a TLB miss followed by a successful walk of a non-probe kind the
\* translation goes into the way of the set that is not the most recently
\* used one (way 0 when way 0 is invalid), the other way keeps its tag,
\* address and PTE, and the new entry becomes the most recently used; a
\* change-bit-only update (a write that hits an entry with C = 0) changes
\* no tag of the set and not its MRU bit.
C27_ReplacementSparesRecentWay ==
    \A flag \in GuestFlags, a \in GuestAddrs :
        \A t \in {TranslateAddress(QuietMmu, flag, a)},
           old \in {ppcState.tlb[TlbKey(flag, a.page)]} :
            \A new \in {t.m.ppcState.tlb[TlbKey(flag, a.page)]},
               way \in {IF old.tag[0] = TLB_TAG_INVALID THEN 0 ELSE 1 - old.recent},
               hit \in {CachedWay(Mmu, flag, a.page)} :
                /\ (hit = -1 /\ t.valid /\ ~t.from_bat)
                      => /\ new.tag[way] = a.page
                         /\ new.paddr[way] = Addr(t.address.page, 0)
                         /\ new.pte[way] = t.m.physical_base.pte[MatchedPTE(a)].pte2
                         /\ new.recent = way
                         /\ new.tag[1 - way] = old.tag[1 - way]
                         /\ new.paddr[1 - way] = old.paddr[1 - way]
                         /\ new.pte[1 - way] = old.pte[1 - way]
                /\ (hit # -1 /\ flag = "FLAG_WRITE" /\ old.pte[hit].C = 0)
                      => /\ new.tag = old.tag
                         /\ new.recent = old.recent
                         /\ new.pte[hit].C = 1
                /\ \A k \in DOMAIN ppcState.tlb \ {TlbKey(flag, a.page)} :
                      t.m.ppcState.tlb[k] = ppcState.tlb[k]

\* The set of page 0x10 of the data TLB is full: page 0x90 has replaced
\* page 0x50 in way 1 and is the most recently used, and page 0x10, cached
\* by a read with C = 0, is in way 0; a read of page 0x50 would now replace
\* page 0x10, and a write of page 0x10 would update the changed bit only.
C27_Witness ==
    /\ ppcState.tlb[<<0, 16>>].tag = (0 :> 16 @@ 1 :> 144)
    /\ ppcState.tlb[<<0, 16>>].recent = 1
    /\ ppcState.tlb[<<0, 16>>].pte[0].C = 0
    /\ physical_base.pte[70976].pte2.R = 1
    /\ TranslateAddress(QuietMmu, "FLAG_READ", Addr(80, 126))
           .m.ppcState.tlb[<<0, 16>>].tag = (0 :> 80 @@ 1 :> 144)
    /\ TranslateAddress(QuietMmu, "FLAG_WRITE", Addr(16, 126))
           .m.ppcState.tlb[<<0, 16>>].recent = 1

\* C28: after InvalidateTLBEntry(address) both ways of the set of the
\* address's page are invalid in the data TLB and in the instruction TLB,
\* every other set and everything else is as before, and the next
\* translation of the page by a non-probe kind, no BAT covering it, walks
\* the page table.
C28_InvalidateEmptiesTheSet ==
    \A a \in GuestAddrs :
        \A m \in {InvalidateTLBEntry(QuietMmu, a)},
           set \in {a.page % (HW_PAGE_INDEX_MASK + 1)} :
            /\ \A i \in 0 .. 1, w \in 0 .. 1 :
                  m.ppcState.tlb[<<i, set>>].tag[w] = TLB_TAG_INVALID
            /\ \A k \in DOMAIN ppcState.tlb \ {<<0, set>>, <<1, set>>} :
                  m.ppcState.tlb[k] = ppcState.tlb[k]
            /\ [m EXCEPT !.ppcState.tlb = ppcState.tlb] = QuietMmu
            /\ \A flag \in GuestFlags :
                  \A t \in {TranslateAddress(m, flag, a)} :
                      ~t.from_bat => t.walk

\* The guest has invalidated the set of page 0x10 after translating page
\* 0x10 for a read and for a fetch: the PTE has R set, the MRU bit of the
\* data set still names way 1, and all four tags of the set are invalid,
\* while the set of page 0x11 still holds its entry.
C28_Witness ==
    /\ physical_base.pte[66880].pte2.R = 1
    /\ ppcState.tlb[<<0, 16>>].recent = 1
    /\ ppcState.tlb[<<1, 16>>].paddr[0] = Addr(32, 0)
    /\ \A i \in 0 .. 1, w \in 0 .. 1 :
          ppcState.tlb[<<i, 16>>].tag[w] = TLB_TAG_INVALID
    /\ CachedWay(Mmu, "FLAG_READ", 17) # -1

(***************************************************************************)
(* The BAT tables as a function of the registers.                          *)
(***************************************************************************)
\* The MMU after the guest had value v in data (instruction) pair i and the
\* table was computed for it, with the registers then set back to the
\* current ones and the table not yet recomputed.
AfterEarlierDBAT(i, v) ==
    [DBATUpdated([QuietMmu EXCEPT !.ppcState.dbat[i] = v])
        EXCEPT !.ppcState.dbat = ppcState.dbat]
AfterEarlierIBAT(i, v) ==
    [IBATUpdated([QuietMmu EXCEPT !.ppcState.ibat[i] = v])
        EXCEPT !.ppcState.ibat = ppcState.ibat]

\* No enabled pair of the registers covers the granule.
Uncovered(bats, x) ==
    \A i \in EnabledPairs(bats) : x \notin PairGranules(bats[i])

PairWord(bat, x) ==
    Addr((bat.BRPN * BAT_PAGES + (x - bat.BEPI) * BAT_PAGES) % PAGE_COUNT, 1)

\* In the table computed for the registers, a granule that two enabled
\* pairs cover holds the word of the higher-numbered one (of the highest,
\* if more than two cover it).
LastPairWins(bats, table, fake) ==
    \A i \in EnabledPairs(bats), j \in EnabledPairs(bats) :
        i < j
        => \A x \in PairGranules(bats[i]) \cap PairGranules(bats[j]) :
              (/\ \A k \in EnabledPairs(bats) :
                      k > j => x \notin PairGranules(bats[k])
               /\ ~(fake /\ FakeWindow(x)))
              => table[x] = PairWord(bats[j], x)

\* The instruction registers with value v in pair j.
IbatWith(j, v) == [QuietMmu EXCEPT !.ppcState.ibat[j] = v]

FakeVMEMAddrs ==
    {Addr(516096, 0), Addr(516096, 126), Addr(516097, 256), Addr(524287, 4088)}

\* The widths of an access.
AccessWidths == {1, 2, 4, 8}

\* C31: with fake VMEM enabled and data translation off, a write of any
\* width to a physical address in [0x7E000000, 0x80000000) followed by a
\* read of the same address and width returns the written value, and
\* neither reports an address it cannot resolve.
C31_FakeVMEMRoundTrip ==
    (bFakeVMEM /\ ppcState.msr.DR = 0)
    => \A a \in FakeVMEMAddrs, size \in AccessWidths :
          \A w \in {WriteToHardware(QuietMmu, "FLAG_WRITE", a, WriteData(size))} :
              \A r \in {ReadFromHardware(w, "FLAG_READ", size, a)} :
                  /\ w.alerts = {}
                  /\ r.m.alerts = {}
                  /\ r.value = Value(WriteData(size))

\* Granules of the two fake-VMEM windows: the first two, one in the middle
\* and the last of the window at 0x40000000, the first two and the last of
\* the window at 0x70000000.
WindowGranules == {8192, 8193, 8448, 10239, 14336, 14337, 16383}

\* The index of a granule in its window.
WindowIndex(x) == IF x < 14336 THEN x - 8192 ELSE x - 14336

\* The two granules lie in the same window.
SameWindow(x, y) == (x < 14336) = (y < 14336)

\* The offset in pages of the i-th granule modulo the size of the backing
\* region [0x7E000000, 0x80000000).
BackingPage(i) == (i * BAT_PAGES) % 8192

\* The MMU after DBATUpdated, with the data table followed on the granules
\* of the windows too.
WindowMmu ==
    DBATUpdated([QuietMmu EXCEPT
        !.dbat_table = [x \in BatIndices \cup WindowGranules |-> ZeroWord]])

\* C32: in fake-VMEM mode, after DBATUpdated the entry of the i-th granule
\* of the windows at 0x40000000 and 0x70000000 is valid with physical
\* address 0x7E000000 + ((i << 17) mod the size of the backing region),
\* whatever the registers say, and two addresses of a window at different
\* offsets modulo that size translate to different physical addresses in
\* [0x7E000000, 0x80000000).
C32_WindowsSpreadOverBackingRegion ==
    bFakeVMEM
    => \A m \in {WindowMmu} :
          /\ \A x \in WindowGranules :
                m.dbat_table[x] = Addr(516096 + BackingPage(WindowIndex(x)), 1)
          /\ \A x \in WindowGranules, y \in WindowGranules :
                (/\ SameWindow(x, y)
                 /\ BackingPage(WindowIndex(x)) # BackingPage(WindowIndex(y)))
                => \A rx \in {TranslateAddress(m, "FLAG_READ", Addr(x * BAT_PAGES, 0))},
                      ry \in {TranslateAddress(m, "FLAG_READ", Addr(y * BAT_PAGES, 0))} :
                       /\ rx.valid /\ ry.valid
                       /\ rx.address.page \div 8192 = 63
                       /\ ry.address.page \div 8192 = 63
                       /\ rx.address # ry.address

\* The part of C32 the code does: every followed granule of the windows is
\* valid and points into the backing region, over any register-derived
\* entry.
WindowsAreValid ==
    bFakeVMEM
    => \A x \in WindowGranules :
          /\ WindowMmu.dbat_table[x].off = 1
          /\ WindowMmu.dbat_table[x].page \div 8192 = 63

(***************************************************************************)
(* The wait of the CPU context for the GPU context.                        *)
(***************************************************************************)
\* C33: when the CPU context is in the spin-wait of SyncGPU and the GPU
\* context is scheduled fairly, GPUHasWork() becomes false and the CPU
\* context leaves the wait.
C33_SyncGPUTerminates ==
    (cpuThread.pc = "SyncGPU") ~> (cpuThread.pc # "SyncGPU")

\* The CPU context waits in SyncGPU while the GPU context has work: the
\* FIFO holds a burst, reading is enabled and no interrupt is waiting.
C33_Witness ==
    /\ cpuThread.pc = "SyncGPU"
    /\ GPUHasWork
    /\ gpuThread.pc = "loop"

\* The bound on the scheduled events never holds the GPU context back.
ScheduleNeverBlocked ==
    gpuThread.pc = "UpdateInterruptsFromVideoBackend" => Len(events) < MaxEvents

(* ---- InvalidateICache and the FIFO-write hints ---- *)

\* The instruction addresses the hint set holds inside [address, address + length).
HintsIn(c, address, length) ==
    {x \in c.fifoWriteAddresses : address <= x /\ x < address + length}

\* C34: after InvalidateICache(address, length, forced = false) the FIFO-write
\* hint set holds no instruction address of [address, address + length), for
\* every address and length, the length == 32 call on a granule whose valid bit
\* is already clear included; with forced = true the hint set is unchanged.
C34_HintsErasedInRange ==
    \A address \in InvAddrs, length \in InvLengths :
        /\ \A r \in {InvalidateICache(Quiet, address, length, FALSE)} :
               HintsIn(r, address, length) = {}
        /\ InvalidateICache(Quiet, address, length, TRUE).fifoWriteAddresses
               = fifoWriteAddresses

(* ---- Writes that straddle a page boundary ---- *)

\* The writes of width 2, 4 or 8 whose bytes straddle a page boundary: from
\* page 0x10 into page 0x11, and from the last page of the address space
\* into page 0.
StraddlingWrites ==
    {<<2, Addr(16, 4095)>>, <<4, Addr(16, 4093)>>, <<8, Addr(16, 4090)>>,
     <<2, Addr(1048575, 4095)>>}

\* C35: with data translation on, a write of width 2, 4 or 8 that straddles
\* a page boundary, both pages translating, stores the bytes of the value
\* most significant first across the two physical pages: a read of the same
\* address and width then returns the value, and the byte reads return its
\* bytes most significant first.
C35_StraddlingWriteRoundTrip ==
    \A acc \in StraddlingWrites :
        \A one \in {TranslateAddress(QuietMmu, "FLAG_WRITE", acc[2])},
           two \in {TranslateAddress(QuietMmu, "FLAG_WRITE", PageAfter(acc[2]))},
           w \in {WriteToHardware(QuietMmu, "FLAG_WRITE", acc[2],
                                  WriteData(acc[1]))} :
            (~stuck /\ ppcState.msr.DR = 1 /\ one.valid /\ two.valid)
                => /\ ~w.stuck
                   /\ w.alerts = {}
                   /\ ReadFromHardware(w, "FLAG_READ", acc[1], acc[2]).value
                          = Value(WriteData(acc[1]))
                   /\ \A k \in 1 .. acc[1] :
                          ReadFromHardware(w, "FLAG_READ", 1,
                                           AddrPlus(acc[2], k - 1)).value
                              = Value(<<WriteData(acc[1])[k]>>)

(* ---- Linked exits and the blocks they lead to ---- *)

\* C36: in every reachable state, an exit with linkStatus true of a block
\* that is not invalid has a target address for which the address index
\* returns a finalized block that is not invalid; in particular FinalizeBlock
\* links no exit of a new block to a block destroyed earlier.
C36_LinkedExitsReachLiveBlocks ==
    \A n \in 0 .. (num_blocks - 1) :
        ~blocks[n].invalid =>
            \A k \in DOMAIN blocks[n].linkData :
                blocks[n].linkData[k].linkStatus =>
                    \A d \in {GetBlockNumberFromStartAddress(
                                  Cache, blocks[n].linkData[k].exitAddress)} :
                        /\ d # NoBlock
                        /\ Finalized(Cache, d)
                        /\ ~blocks[d].invalid

(* ---- The indices UpdateBATs writes ---- *)

\* The indices start + j, j < size, at which UpdateBATs writes bat_table
\* for the translations t.
UpdateBATsIndices(t) ==
    UNION {{t[i].logical_address.page \div BAT_PAGES + j :
               j \in 0 .. (t[i].logical_size \div 131072 - 1)} : i \in DOMAIN t}

\* C37: for every value of the BAT registers, every index start + j that
\* UpdateBATs writes is below the table size 2^15: no register value makes
\* the update write outside dbat_table / ibat_table.
C37_UpdateBATsStaysInTable ==
    \A bats \in {ppcState.dbat, ppcState.ibat} :
        \A x \in UpdateBATsIndices(ComputeBATTranslations(bats)) :
            x < BAT_TABLE_SIZE

(* ---- block_map and the live blocks ---- *)

\* Every value of block_map is a finalized block that is not invalid, and
\* every such block has its (end, start) key in block_map mapping to it.
BlockMapHoldsLive(c) ==
    /\ \A k \in DOMAIN c.block_map : Live(c, c.block_map[k])
    /\ \A n \in BlockIds :
          Live(c, n) =>
              /\ <<BlockEnd(c.blocks[n]), BlockStart(c.blocks[n])>>
                     \in DOMAIN c.block_map
              /\ c.block_map[<<BlockEnd(c.blocks[n]), BlockStart(c.blocks[n])>>] = n

\* The block between AllocateBlock and FinalizeBlock, if any, was allocated
\* at an address for which the address index reports no block.
AllocatedOnMiss(c) ==
    \A n \in Pending(c) :
        GetBlockNumberFromStartAddress(c, c.blocks[n].originalAddress) = NoBlock

\* C38 (as stated): in every state reached by AllocateBlock, one
\* FinalizeBlock per allocated block, InvalidateICache and Clear, every value
\* of block_map is the number of a finalized block that is not invalid, and
\* every finalized block that is not invalid has its (end, start) key in
\* block_map mapping to it: InvalidateICache neither destroys an invalid
\* block nor misses a live one whose key was overwritten.
C38_BlockMapHoldsTheLiveBlocks == BlockMapHoldsLive(Cache)

\* C38 (amended): AllocateBlock, FinalizeBlock, InvalidateICache and Clear
\* keep block_map in step with the live blocks whenever the block being
\* finalized was allocated, as the dispatcher does, at an address for which
\* the index reported no block.
C38_BlockMapKeptWhenAllocatedOnMiss ==
    [][(BlockMapHoldsLive(Cache) /\ AllocatedOnMiss(Cache))
           => BlockMapHoldsLive(Cache')]_vars

\* C38 witness: block_map in step with three finalized blocks, one of them
\* destroyed by InvalidateICache and two live under their own keys.
C38_Witness ==
    /\ Pending(Cache) = {}
    /\ BlockMapHoldsLive(Cache)
    /\ Cardinality(DOMAIN block_map) = 2
    /\ \E d \in BlockIds : Finalized(Cache, d) /\ blocks[d].invalid

(* ---- Translations that fail ---- *)

\* The MMU after the guest has zeroed its page table with stores to the PTE
\* groups and run no tlbie: what the TLB caches is stale.
StalePageTable(m) == [m EXCEPT !.physical_base.pte = <<>>]

\* C39: a translation that returns invalid leaves the page table in
\* physical memory and every TLB entry (tags, cached PTE words, MRU bits) as
\* they were, for every access kind and every TLB state, entries that are
\* stale with respect to the page table included.
C39_InvalidTranslationChangesNothing ==
    \A m \in {QuietMmu, StalePageTable(QuietMmu)} :
        \A flag \in TranslatingFlags, a \in GuestAddrs :
            \A t \in {TranslateAddress(m, flag, a)} :
                ~t.valid =>
                    /\ t.m.ppcState.tlb = m.ppcState.tlb
                    /\ t.m.physical_base.pte = m.physical_base.pte

(* ---- The interrupt handshake of the two contexts ---- *)

\* The et_UpdateInterrupts events the GPU context scheduled whose
\* UpdateInterrupts has not finished: those queued and the one running.
OutstandingEvents ==
    Len(events)
    + (IF cpuThread.event
          /\ cpuThread.pc \in {"UpdateInterrupts", "interruptWaiting = false"}
       THEN 1 ELSE 0)

\* C40: under any interleaving of SetCpStatus(false) on the GPU context with
\* SetCpStatus(true) and the scheduled UpdateInterrupts on the CPU context,
\* at most one event scheduled by the GPU context is outstanding;
\* interruptWaiting is set only together with scheduling one event and is
\* cleared only when that event's UpdateInterrupts has run; and while it is
\* true neither context schedules or applies another interrupt update.
C40_OneInterruptUpdateOutstanding ==
    /\ OutstandingEvents <= 1
    /\ events # <<>> => interruptWaiting
    /\ interruptWaiting =>
          /\ ~(cpuThread.pc = "UpdateInterrupts" /\ ~cpuThread.event)
          /\ gpuThread.pc # "interruptWaiting = true"
          /\ gpuThread.pc = "UpdateInterruptsFromVideoBackend"
                 => OutstandingEvents = 0

====
